---- MODULE Spec2Model ----
(***************************************************************************)
(* Drift-simulation backend: the simulation registry and run loop of       *)
(* SimulationController, the time-stepping driver it advances              *)
(* (TimeSteppingSimulator.step / createSnapshot) and the HTTP DELETE route *)
(* of server.js.                                                           *)
(*                                                                         *)
(* Node.js runs one callback at a time.  The variable `cur` is the         *)
(* simulation whose runSimulation() currently holds the thread (0 when the *)
(* event loop is idle); API calls are taken only when the thread is idle,  *)
(* and a run loop gives the thread back only at its `await` (every tenth   *)
(* step) or when it returns.  Callbacks handed to setImmediate run in the  *)
(* order in which they were handed over: `immediates` is that queue.       *)
(*                                                                         *)
(* Numbers.  Floating-point quantities are kept as exact integers or       *)
(* rationals: a duration is held in seconds (durationHours * 3600),        *)
(* progress as a fraction num/den, positions in grid units, depths in      *)
(* tenths of a metre, probabilities in hundredths.                         *)
(***************************************************************************)
EXTENDS Integers, Sequences, FiniteSets, TLC

\* ---------------------------------------------------------------- bounds
MaxSims == 1        \* simulations that may be started in one behaviour
MaxHours == 2       \* longest whole-hour duration a request may ask for
NumParticles == 1   \* config.particleCount of every request
MaxSteps == 3       \* steps a caller stepping a driver itself may take
SchedSims == 2      \* simulations running side by side under the scheduler
MaxPoints == 4      \* most points handed to convexHull

\* ------------------------------------------------------ program constants
timeStepSeconds == 600
YieldEvery == 10
HourSeconds == 3600
ShallowDepth == 20
SurfDepth == 5
MaxWind == 40
TidalPeriod == 44712
shallowWaterThreshold == 20
surfZoneThreshold == 5
veryShallowThreshold == 2

SimIds == 1..MaxSims

None == <<>>
Some(x) == <<x>>

\* ------------------------------------------------------------- leeway table
\* LeewayCalculator.leewayFactors: the enumerated object types.
leewayFactors ==
  {"person-in-water", "person-with-pfd", "person-in-drysuit", "life-raft-4",
   "life-raft-6", "life-raft-10-plus", "small-vessel", "medium-vessel",
   "sailboat", "kayak", "canoe", "surfboard", "paddleboard", "wood-debris",
   "plastic-debris", "cooler"}

\* LeewayCalculator.calculate / getLeewayParams: the table entry used for an
\* object type; an unknown type silently falls back to person-in-water.
getLeewayParams(objectType) ==
  IF objectType \in leewayFactors THEN objectType ELSE "person-in-water"

\* ------------------------------------------------------------ request inputs
\* Shapes of config.lkp:
\*   "missing"  no lkp at all
\*   "zeroLat"  { lat: 0, lng: -30 }       a point on the equator
\*   "numeric"  { lat: 29.3, lng: -94.8 }  non-zero numbers
\*   "string"   { lat: "29.3", lng: "-94.8" } non-numeric fields
LkpKinds == {"missing", "zeroLat", "numeric", "string"}

ObjectTypeInputs == {"kayak", "submarine"}

\* config.durationHours * 3600: -1 h, 0.25 h and the whole hours 1..MaxHours.
\* (durationHours absent or 0 selects the 72 h default; a 432-step run is
\* left out of the enumerated requests.)
DurationInputs == {-3600, 900} \cup {h * HourSeconds : h \in 1..MaxHours}

Config(lkp, objectType, durationSeconds) ==
  [lkp |-> lkp, objectType |-> objectType, durationSeconds |-> durationSeconds]

\* The requests: every duration with a numeric LKP and a known object type,
\* and a one-hour request for each other LKP shape and for an unknown type.
Configs ==
  {Config("numeric", "kayak", d) : d \in DurationInputs}
    \cup {Config(l, "kayak", HourSeconds) : l \in LkpKinds}
    \cup {Config("numeric", o, HourSeconds) : o \in ObjectTypeInputs}

\* Displacements (grid units) the summed drift of one particle in one step may
\* take: wind, current, wave, leeway and diffusion are random draws.
Drifts == {<<1, 0>>, <<0, 1>>}

\* A depth of m metres.
Metres(m) == 10 * m

\* The coordinate NaN, a value outside every grid; a sum with a NaN term is NaN.
NaN == -1000

add(x, y) == IF x = NaN \/ y = NaN THEN NaN ELSE x + y

\* TimeSteppingSimulator.getDepthAt: the built-in lookup returns
\* 20 + Math.random() * 30 and caches it under the position's key, so within
\* one simulation the depth is a fixed function of the position.  A depth
\* field is one outcome of all those draws: "flat" is 35 m everywhere,
\* "ridged" alternates 20 m and 49 m from one diagonal of cells to the next.
BuiltinFields == {"flat", "ridged"}

\* Depth fields of a driver whose getDepthAt answers from bathymetry data
\* instead of the built-in draw.  The shore lies towards growing lat:
\*   "shelf"  35 m, 15 m, then 4 m at lat 0, 0.3 m at lat 1, the waterline
\*            (0 m) from lat 2 on
\*   "cliff"  35 m up to lat 0, land 2 m above the water from lat 1 on
\* For the key "NaN,NaN" every lookup answers like the built-in one (35 m).
ShoreFields == {"shelf", "cliff"}

\* getDepthAt with a built-in draw that starts a metre lower, at 19 m.
getDepthAt_m(field, lat, lng) ==
  CASE lat = NaN \/ lng = NaN -> Metres(35)
    [] field = "flat" -> Metres(35)
    [] field = "ridged" -> IF (lat + lng) % 2 = 0 THEN Metres(19) ELSE Metres(49)
    [] field = "shelf" -> IF lat <= -2 THEN Metres(35)
                          ELSE IF lat = -1 THEN Metres(15)
                          ELSE IF lat = 0 THEN Metres(4)
                          ELSE IF lat = 1 THEN 3
                          ELSE 0
    [] field = "cliff" -> IF lat <= 0 THEN Metres(35) ELSE -Metres(2)

getDepthAt(field, lat, lng) ==
  CASE lat = NaN \/ lng = NaN -> Metres(35)
    [] field = "flat" -> Metres(35)
    [] field = "ridged" -> IF (lat + lng) % 2 = 0 THEN Metres(20) ELSE Metres(49)
    [] field = "shelf" -> IF lat <= -2 THEN Metres(35)
                          ELSE IF lat = -1 THEN Metres(15)
                          ELSE IF lat = 0 THEN Metres(4)
                          ELSE IF lat = 1 THEN 3
                          ELSE 0
    [] field = "cliff" -> IF lat <= 0 THEN Metres(35) ELSE -Metres(2)

\* ShallowWaterPhysics.shoreTypes: stickiness and reflection, in hundredths.
shoreTypes ==
  [rocky    |-> [stickiness |-> 85,  reflection |-> 15],
   sandy    |-> [stickiness |-> 60,  reflection |-> 30],
   muddy    |-> [stickiness |-> 95,  reflection |-> 5],
   marsh    |-> [stickiness |-> 100, reflection |-> 0],
   mangrove |-> [stickiness |-> 100, reflection |-> 0],
   seawall  |-> [stickiness |-> 10,  reflection |-> 90],
   riprap   |-> [stickiness |-> 40,  reflection |-> 50],
   coral    |-> [stickiness |-> 70,  reflection |-> 20]]

\* TimeSteppingSimulator.getShoreType: one of these four, at random.
DriverShoreTypes == {"sandy", "rocky", "muddy", "marsh"}

\* Values of Math.random() in checkShoreInteraction, in hundredths.
ShoreRolls == {30, 75, 95}

\* TimeSteppingSimulator.getShoreInfo: shoreNormal is Math.random() * 360; one
\* outcome is followed.
ShoreNormals == {90}

\* The other random draws made while one particle is processed in one step:
\*   drift     the summed displacement
\*   beach     Math.random() < shallowEffects.beachingProbability
\*   rand      Math.random() of checkShoreInteraction
\*   shoreType getShoreType(newLat, newLng)
\*   shoreNormal getShoreInfo(lat, lng).shoreNormal, in degrees
\*   reflect   the displacement of a reflection
\* At depths of 20 m and more the last four draws are never made.
BuiltinDraws ==
  [drift : Drifts, beach : {FALSE}, rand : {95}, shoreType : {"sandy"},
   shoreNormal : ShoreNormals, reflect : {<<-1, 0>>}]

\* The registry-level specification follows one outcome of the draws (the
\* particle-level outcomes are explored by SpecDriver).
RegistryFields == {"flat"}

RegistryDraws ==
  [drift : {<<1, 0>>}, beach : {FALSE}, rand : {95}, shoreType : {"sandy"},
   shoreNormal : ShoreNormals, reflect : {<<-1, 0>>}]

\* Draws of a driver on a shore: drifting towards the shore or away from it,
\* meeting a sandy shore with each value of rand or a marsh with the largest.
ShoreContacts ==
  {<<"sandy", rand>> : rand \in ShoreRolls} \cup {<<"marsh", 95>>}

ShoreDraws ==
  {[drift |-> drift, beach |-> beach, rand |-> contact[2],
    shoreType |-> contact[1], shoreNormal |-> shoreNormal, reflect |-> <<-1, 0>>] :
     drift \in {<<1, 0>>, <<-1, 0>>}, beach \in BOOLEAN, contact \in ShoreContacts,
     shoreNormal \in ShoreNormals}

\* ------------------------------------------------------------- environment
\* EnvironmentalManager.conditions: wind speed (knots), current speed (tenths
\* of a knot) and wave height (metres); the wind blows along lat, the current
\* sets along lng.  shoreNormal is the property of that name of the stored
\* waves record, absent in what generateConditions returns.
GeneratedConditions == [wind |-> 10, current |-> 5, waveHeight |-> 1, shoreNormal |-> None]
CalmConditions == [wind |-> 0, current |-> 0, waveHeight |-> 0, shoreNormal |-> None]

\* EnvironmentalManager.updateConditions: the wind speed takes a random change
\* of up to 1 knot and is clamped to 0..40.
Gusts == {-1, 0, 1}

updateConditions(conditions, gust) ==
  LET w == conditions.wind + gust
  IN [conditions EXCEPT !.wind = IF w < 0 THEN 0 ELSE IF w > MaxWind THEN MaxWind ELSE w]

\* EnvironmentalManager.getConditionsAt: the stored speeds plus a random
\* variation (up to 1 knot of wind, 0.1 knot of current); the waves as stored.
Variations == {0, 1}

getConditionsAt(conditions, windVar, currentVar) ==
  [wind |-> conditions.wind + windVar, current |-> conditions.current + currentVar,
   waveHeight |-> conditions.waveHeight, shoreNormal |-> conditions.shoreNormal]

\* TimeSteppingSimulator.calculateDiffusion: a displacement of length
\* sqrt(diffusionRate * deltaHours) at a random angle, where diffusionRate is
\* the method's own constant 0.001 (one grid unit here).
Angles == {<<1, 0>>, <<0, 1>>}

calculateDiffusion(angle) == angle

\* The summed displacement of an active particle in deep water: wind drift
\* and leeway (proportional to the wind speed), current drift (proportional
\* to the current speed), wave drift (proportional to the squared wave
\* height) and the driver's diffusion.
totalDrift(env, angle) ==
  LET diffusion == calculateDiffusion(angle)
  IN <<env.wind + env.waveHeight * env.waveHeight + diffusion[1],
       env.current + diffusion[2]>>

\* The draws of one particle under given stored conditions, far from shore.
DrawsUnder(conditions) ==
  [drift : {totalDrift(getConditionsAt(conditions, w, c), a) :
              w \in Variations, c \in Variations, a \in Angles},
   beach : {FALSE}, rand : {95}, shoreType : {"sandy"}, shoreNormal : ShoreNormals,
   reflect : {<<-1, 0>>}]

\* ------------------------------------------------- shallow-water physics
\* A displacement { lat, lng } of ShallowWaterPhysics is followed by its kind
\* only: "zero", "finite" (a finite vector that is not zero) or "NaN" (lat
\* and lng are NaN).  A sum with a NaN term is NaN; a sum with a non-zero
\* term is taken as non-zero.
plus(a, b) ==
  IF a = "NaN" \/ b = "NaN" THEN "NaN"
  ELSE IF a = "finite" \/ b = "finite" THEN "finite"
  ELSE "zero"

\* calculateBottomFriction: frictionFactor divides by Math.pow(depth, 1/3),
\* which is NaN for a negative depth and 0 at depth 0 (Infinity times a zero
\* current speed is NaN; Math.min(0.8, Infinity) is 0.8).
calculateBottomFriction(depth, current) ==
  IF depth < 0 THEN "NaN"
  ELSE IF current = 0 THEN (IF depth = 0 THEN "NaN" ELSE "zero")
  ELSE "finite"

\* calculateShallowStokesDrift: waves.height || 1 is never 0; at depth 0 the
\* Newton iteration of calculateWaveNumber divides by 0 and returns NaN.
calculateShallowStokesDrift(depth) ==
  IF depth = 0 THEN "NaN" ELSE "finite"

\* calculateBathymetryCirculation: nothing without a gradient (or with one
\* below 0.001); otherwise proportional to the current speed.
calculateBathymetryCirculation(current, gradient) ==
  IF gradient = "absent" \/ current = 0 THEN "zero" ELSE "finite"

\* calculateTidalAsymmetry: 0.1 * (20 / depth) times the sine of the phase;
\* at phase 0 ("slack") the sine is 0, and Infinity * 0 is NaN at depth 0.
calculateTidalAsymmetry(depth, tidal) ==
  IF tidal = "slack" THEN (IF depth = 0 THEN "NaN" ELSE "zero")
  ELSE "finite"

\* The breaking criterion waves.height / depth > 0.78 (height in metres,
\* depth in tenths of a metre; a positive height over depth 0 is Infinity).
isBreaking(waveHeight, depth) ==
  IF depth > 0 THEN 1000 * waveHeight > 78 * depth
  ELSE depth = 0 /\ waveHeight > 0

\* calculateSurfZoneEffects: breaking-wave transport, longshore current, rip
\* current and undertow; beachingProbability 0.15 per hour when the waves
\* break (thousandths).  The longshore current takes the square root of
\* min(H, 0.78 * depth), NaN for a negative depth; the breaking transport is
\* 0 * Infinity at depth 0.  The undertow exceeds 0.01 for every wave height
\* of a metre or more.
calculateSurfZoneEffects(env, depth) ==
  [displacement |-> IF depth <= 0 THEN "NaN" ELSE "finite",
   beachingProbability |-> IF isBreaking(env.waveHeight, depth) THEN 150 ELSE 0,
   effects |-> (IF isBreaking(env.waveHeight, depth) THEN <<"wave_breaking">> ELSE <<>>)
                 \o (IF depth > 0 /\ env.oblique THEN <<"longshore_current">> ELSE <<>>)
                 \o (IF env.rip THEN <<"rip_current">> ELSE <<>>)
                 \o <<"undertow">>]

\* calculateVeryShallowEffects: friction 0.5 * (1 - depth / 2) times the
\* current speed, beachingProbability 0.3 * (1 - depth / 2) per hour
\* (thousandths; depth in tenths of a metre).
calculateVeryShallowEffects(env, depth) ==
  [displacement |-> IF env.current = 0 \/ depth = Metres(veryShallowThreshold)
                    THEN "zero" ELSE "finite",
   beachingProbability |-> 300 - 15 * depth]

\* ShallowWaterPhysics.calculate(particle, env, depth, deltaHours): the summed
\* displacement, the beaching probability per hour of step (thousandths) and
\* the effect tags.  It returns the empty result only for depth > 20.
calculateShallow(env, depth) ==
  IF depth > Metres(shallowWaterThreshold)
  THEN [displacement |-> "zero", beachingProbability |-> 0, effects |-> <<>>]
  ELSE
    LET tidal == env.tidal # "absent"
        surf == depth <= Metres(surfZoneThreshold)
        veryShallow == depth <= Metres(veryShallowThreshold)
        surfZone == calculateSurfZoneEffects(env, depth)
        veryShallowEffects == calculateVeryShallowEffects(env, depth)
        d1 == plus(calculateBottomFriction(depth, env.current),
                   calculateShallowStokesDrift(depth))
        d2 == plus(d1, calculateBathymetryCirculation(env.current, env.gradient))
        d3 == IF tidal THEN plus(d2, calculateTidalAsymmetry(depth, env.tidal)) ELSE d2
        d4 == IF surf THEN plus(d3, surfZone.displacement) ELSE d3
        d5 == IF veryShallow THEN plus(d4, veryShallowEffects.displacement) ELSE d4
    IN [displacement |-> d5,
        beachingProbability |->
          (IF surf THEN surfZone.beachingProbability ELSE 0)
            + (IF veryShallow THEN veryShallowEffects.beachingProbability ELSE 0),
        effects |->
          <<"bottom_friction", "shallow_stokes", "bathy_circulation">>
            \o (IF tidal THEN <<"tidal_asymmetry">> ELSE <<>>)
            \o (IF surf THEN surfZone.effects ELSE <<>>)
            \o (IF veryShallow THEN <<"very_shallow">> ELSE <<>>)]

\* ------------------------------------------------------------ the depth caches
\* A JavaScript Map as the two depth caches use it.  keys lists the keys
\* present in insertion order, which is the order of Map.prototype.keys();
\* at gives every key of the universe its value, None while it is not present.
\* set() of a key already present replaces the value and keeps the key's place.
NewMap(universe) == [keys |-> <<>>, at |-> [k \in universe |-> None]]

MapHas(m, k) == m.at[k] # None

MapGet(m, k) == m.at[k][1]

MapSet(m, k, v) ==
  [keys |-> IF MapHas(m, k) THEN m.keys ELSE Append(m.keys, k),
   at |-> [m.at EXCEPT ![k] = Some(v)]]

\* keysToDelete.forEach(k => map.delete(k))
MapDeleteAll(m, keysToDelete) ==
  LET gone == {keysToDelete[j] : j \in DOMAIN keysToDelete}
  IN [keys |-> SelectSeq(m.keys, LAMBDA k : k \notin gone),
      at |-> [k \in DOMAIN m.at |-> IF k \in gone THEN None ELSE m.at[k]]]

\* -- BathymetryService.  Positions are in units of 0.0001 degrees.  getCacheKey
\* rounds both coordinates to grid indices (units of gridResolution = 0.001
\* degrees, Math.round rounding a half upwards) and prints the pair with
\* toFixed(4); the key of the cell (latIndex, lngIndex) is written here as
\* the number 100 * latIndex + lngIndex, the area being 100 cells wide.
cacheMaxSize == 10000
cacheTimeout == 3600000
evictedAtOnce == 1000

getCacheKey(lat, lng) == ((lat + 5) \div 10) * 100 + (lng + 5) \div 10

\* The keys of the area the service is asked about: 101 by 100 grid cells.
ServiceKeys == 0..10099

\* new BathymetryService(): an empty cache.  requests counts the calls made.
NewBathymetryService == [depthCache |-> NewMap(ServiceKeys), requests |-> 0]

\* cacheDepth(key, data) at time now
cacheDepth_m(cache, key, data, now) ==
  LET size == Len(cache.keys)
      kept == IF size > cacheMaxSize
              THEN MapDeleteAll(cache, SubSeq(cache.keys, 1,
                                   IF size < evictedAtOnce THEN size ELSE evictedAtOnce))
              ELSE cache
  IN MapSet(kept, key, [data |-> data, timestamp |-> now])

cacheDepth(cache, key, data, now) ==
  LET size == Len(cache.keys)
      kept == IF size >= cacheMaxSize
              THEN MapDeleteAll(cache, SubSeq(cache.keys, 1,
                                   IF size < evictedAtOnce THEN size ELSE evictedAtOnce))
              ELSE cache
  IN MapSet(kept, key, [data |-> data, timestamp |-> now])

\* What the providers answer to one request.  getNoaaCoastalDepth and
\* getNoaaBagDepth each yield a record, or nothing: they return null, or they
\* throw (a network error, a timeout) and getDepth catches it.  getGebcoDepth
\* always returns null.
CrmData == [depth |-> Metres(12), source |-> "NOAA_CRM"]
BagData == [depth |-> Metres(8), source |-> "NOAA_BAG"]
Answers == [crm : {None, Some(CrmData)}, bag : {None, Some(BagData)}]

estimateDepthFromShore == [depth |-> Metres(15), source |-> "estimated"]

\* getDepth(lat, lng) at time now, the providers answering `answer`:
\* the cache after the call and the record returned.
getDepth(cache, lat, lng, answer, now) ==
  LET cacheKey == getCacheKey(lat, lng)
      depthData == IF answer.crm # None THEN answer.crm[1]
                   ELSE IF answer.bag # None THEN answer.bag[1]
                   ELSE estimateDepthFromShore
  IN IF MapHas(cache, cacheKey)
          /\ now - MapGet(cache, cacheKey).timestamp < cacheTimeout
     THEN [cache |-> cache, data |-> MapGet(cache, cacheKey).data]
     ELSE [cache |-> cacheDepth(cache, cacheKey, depthData, now), data |-> depthData]

\* getDepthGrid(bounds, resolution): the loops over lat and lng, row by row.
gridRows(bounds, resolution) == (bounds.north - bounds.south) \div resolution + 1
gridCols(bounds, resolution) == (bounds.east - bounds.west) \div resolution + 1

\* The getDepth calls number lo..hi of the loops (row-major, from 1), in
\* order; the first half of the calls is made before the second.
RECURSIVE gridCalls(_, _, _, _, _, _, _)
gridCalls(cache, bounds, resolution, answer, now, lo, hi) ==
  IF lo > hi THEN cache
  ELSE IF lo = hi
  THEN LET cols == gridCols(bounds, resolution)
           lat == bounds.south + ((lo - 1) \div cols) * resolution
           lng == bounds.west + ((lo - 1) % cols) * resolution
       IN getDepth(cache, lat, lng, answer, now).cache
  ELSE LET mid == (lo + hi) \div 2
           first == gridCalls(cache, bounds, resolution, answer, now, lo, mid)
       IN IF Len(first.keys) >= 0
          THEN gridCalls(first, bounds, resolution, answer, now, mid + 1, hi)
          ELSE first

getDepthGrid(cache, bounds, resolution, answer, now) ==
  LET rows == gridRows(bounds, resolution)
      cols == gridCols(bounds, resolution)
  IN [cache |-> gridCalls(cache, bounds, resolution, answer, now, 1, rows * cols),
      rows |-> rows, cols |-> cols]

\* -- The depthCache of TimeSteppingSimulator.  Positions are in thirds of
\* 0.0001 degrees, so that toFixed(4) has no tie to break.  The key
\* `${lat.toFixed(4)},${lng.toFixed(4)}` of the rounded pair (a, b) is written
\* here as the number 2 * a + b, the area being two keys wide.
toFixed4(x) == (x + 1) \div 3

\* The ensemble size of a request that gives no particleCount.
DefaultParticleCount == 10000

\* The steps a driver is followed for.
MaxCacheSteps == 2

DriverKeys == 0..(2 * (DefaultParticleCount + MaxCacheSteps) + 1)

\* getDepthAt(lat, lng) with the cache it keeps: the cache after the call and
\* the depth returned.  20 + Math.random() * 30 is drawn once per key; the
\* draw is taken to be 20 m plus the key's latitude index modulo 30.
getDepthAtCached(cache, lat, lng) ==
  LET key == 2 * toFixed4(lat) + toFixed4(lng)
      depth == Metres(20 + (key % 30))
  IN IF MapHas(cache, key)
     THEN [cache |-> cache, depth |-> MapGet(cache, key)]
     ELSE [cache |-> MapSet(cache, key, depth), depth |-> depth]

\* The lookups lo..hi of one step, in order: for particle k (lookups 2k - 1
\* and 2k) the depth at its position, then the depth at its new position.
\* Particle k lies at lat = base + spacing * (k - 1) on the meridian lng, and
\* the step moves every particle by drift along lat.
RECURSIVE stepLookups(_, _, _, _, _)
stepLookups(cache, ensemble, drift, lo, hi) ==
  IF lo > hi THEN cache
  ELSE IF lo = hi
  THEN LET k == (lo + 1) \div 2
           lat == ensemble.base + ensemble.spacing * (k - 1)
       IN getDepthAtCached(cache, IF lo % 2 = 1 THEN lat ELSE lat + drift,
                           ensemble.lng).cache
  ELSE LET mid == (lo + hi) \div 2
           first == stepLookups(cache, ensemble, drift, lo, mid)
       IN IF Len(first.keys) >= 0
          THEN stepLookups(first, ensemble, drift, mid + 1, hi)
          ELSE first

VARIABLES
  simulations,  \* keys of the controller's Map
  sim,          \* the simulation objects, by id (kept while a run loop holds one)
  task,         \* runSimulation(id): its position and loop counter
  immediates,   \* ids whose setImmediate callback is pending, oldest first
  cur,          \* id whose run loop holds the thread, 0 when idle
  resp,         \* outcome of the API call / HTTP request of this turn (for a
                \* call of the containment calculator: its argument, then
                \* also its result)
  driverCache,  \* a driver followed by its depth lookups alone: its ensemble
                \* and its depthCache (None before it is built)
  bathymetry,   \* the BathymetryService: its depthCache
  wallClock     \* Date.now(), in milliseconds since the service was built

vars == <<simulations, sim, task, immediates, cur, resp,
          driverCache, bathymetry, wallClock>>

\* ------------------------------------------------------------- the particles
\* initializeParticles numbering the particles from 1.
initializeParticles_m(lkp) ==
  [k \in 1..NumParticles |->
     [id |-> k, lat |-> 0, lng |-> 0, numeric |-> (lkp # "string"),
      status |-> "active", age |-> 0, beachedAt |-> -1, depth |-> -1,
      beachType |-> "", beachingEffects |-> "", reflectionCount |-> 0]]

\* ParticleEngine.initializeParticles: ids 0..N-1, all active, age 0.  A
\* string lkp makes lat/lng strings (string + number concatenates).
initializeParticles(lkp) ==
  [k \in 1..NumParticles |->
     [id |-> k - 1, lat |-> 0, lng |-> 0, numeric |-> (lkp # "string"),
      status |-> "active", age |-> 0, beachedAt |-> -1, depth |-> -1,
      beachType |-> "", beachingEffects |-> "", reflectionCount |-> 0]]

\* ParticleEngine.getActiveParticles
getActiveParticles(particles) ==
  {k \in DOMAIN particles : particles[k].status = "active"}

\* TimeSteppingSimulator constructor
NewSimulator(lkp, field) ==
  [particles |-> initializeParticles(lkp),
   depthField |-> field,
   conditions |-> GeneratedConditions,
   diffusionRate |-> 1,
   currentTime |-> 0,
   snapshots |-> <<>>,
   stats |-> [totalBeached |-> 0, beachingLocations |-> <<>>,
              shallowWaterEncounters |-> 0, surfZoneEncounters |-> 0,
              landExclusions |-> 0, reflections |-> 0]]

\* beachParticle marking the particle recovered.
beachParticle_m(p, stats, currentTime, depth, effects, shoreType) ==
  [p |-> [p EXCEPT !.status = "recovered", !.beachedAt = currentTime,
                   !.beachingEffects = effects, !.beachType = shoreType],
   stats |-> [stats EXCEPT
                !.totalBeached = @ + 1,
                !.beachingLocations =
                   Append(@, [lat |-> p.lat, lng |-> p.lng, time |-> currentTime,
                              depth |-> depth, shoreType |-> shoreType,
                              effects |-> effects])]]

\* TimeSteppingSimulator.beachParticle
beachParticle(p, stats, currentTime, depth, effects, shoreType) ==
  [p |-> [p EXCEPT !.status = "beached", !.beachedAt = currentTime,
                   !.beachingEffects = effects, !.beachType = shoreType],
   stats |-> [stats EXCEPT
                !.totalBeached = @ + 1,
                !.beachingLocations =
                   Append(@, [lat |-> p.lat, lng |-> p.lng, time |-> currentTime,
                              depth |-> depth, shoreType |-> shoreType,
                              effects |-> effects])]]

\* ShallowWaterPhysics.checkShoreInteraction: depth is the depth handed in by
\* the driver (the depth at the particle's current position); above 0.5 m no
\* interaction takes place.  An unknown shore type is treated as sandy.
checkShoreInteraction(shoreType, depth, rand) ==
  LET shore == IF shoreType \in DOMAIN shoreTypes THEN shoreTypes[shoreType]
               ELSE shoreTypes["sandy"]
  IN IF 2 * depth > Metres(1) THEN "none"
     ELSE IF rand < shore.stickiness THEN "beached"
     ELSE IF rand < shore.stickiness + shore.reflection THEN "reflected"
     ELSE "none"

\* The env handed to ShallowWaterPhysics.calculate by step: the sampled
\* current and waves, tidal data with phase calculateTidalPhase() (0 at time
\* 0), the gradient of getBathymetryGradient; no rip-current risk is set.
driverEnv(conditions, currentTime) ==
  [current |-> conditions.current, waveHeight |-> conditions.waveHeight,
   tidal |-> IF currentTime % TidalPeriod = 0 THEN "slack" ELSE "flood",
   gradient |-> "steep", oblique |-> TRUE, rip |-> FALSE]

\* ProcessParticle with a reflection that does not age the particle.
ProcessParticle_m(p, stats, conditions, currentTime, deltaSeconds, field, d) ==
  LET depth == getDepthAt(field, p.lat, p.lng)
      p1 == [p EXCEPT !.depth = depth]
      shallow == depth < Metres(ShallowDepth)
      st1 == IF shallow
             THEN [stats EXCEPT
                     !.shallowWaterEncounters = @ + 1,
                     !.surfZoneEncounters = IF depth <= Metres(SurfDepth) THEN @ + 1 ELSE @]
             ELSE stats
      cond1 == IF shallow
               THEN [conditions EXCEPT !.shoreNormal = Some(d.shoreNormal)]
               ELSE conditions
      shallowEffects == calculateShallow(driverEnv(cond1, currentTime), depth)
      nanDrift == p1.lat = NaN \/ (shallow /\ shallowEffects.displacement = "NaN")
      newLat == IF nanDrift THEN NaN ELSE p1.lat + d.drift[1]
      newLng == IF nanDrift THEN NaN ELSE p1.lng + d.drift[2]
      newDepth == getDepthAt(field, newLat, newLng)
  IN IF shallow /\ depth <= Metres(SurfDepth) /\ d.beach
     THEN beachParticle(p1, st1, currentTime, depth, "shallow", "unknown")
            @@ [conditions |-> cond1]
     ELSE IF newDepth <= 0
     THEN LET st2 == [st1 EXCEPT !.landExclusions = @ + 1]
              interaction == checkShoreInteraction(d.shoreType, depth, d.rand)
          IN IF interaction = "beached"
             THEN beachParticle(p1, st2, currentTime, depth, "land_contact", d.shoreType)
                    @@ [conditions |-> cond1]
             ELSE IF interaction = "reflected"
             THEN [p |-> [p1 EXCEPT !.lat = @ + d.reflect[1],
                                    !.lng = @ + d.reflect[2],
                                    !.reflectionCount = @ + 1],
                   stats |-> [st2 EXCEPT !.reflections = @ + 1],
                   conditions |-> cond1]
             ELSE [p |-> [p1 EXCEPT !.age = @ + deltaSeconds], stats |-> st2,
                   conditions |-> cond1]
     ELSE [p |-> [p1 EXCEPT !.lat = newLat, !.lng = newLng,
                            !.age = @ + deltaSeconds],
           stats |-> st1, conditions |-> cond1]

\* The body of the forEach in TimeSteppingSimulator.step for one active
\* particle: depth lookup, shallow-water branch (which stores the shore normal
\* in the waves record of the environmental manager), land exclusion, move,
\* age.  (The beaching probability of ShallowWaterPhysics.calculate can be
\* positive only in the surf zone, depth <= 5; d.beach is the draw against
\* it.)  A NaN displacement makes the new position NaN; nothing tests for it.
ProcessParticle(p, stats, conditions, currentTime, deltaSeconds, field, d) ==
  LET depth == getDepthAt(field, p.lat, p.lng)
      p1 == [p EXCEPT !.depth = depth]
      shallow == depth < Metres(ShallowDepth)
      st1 == IF shallow
             THEN [stats EXCEPT
                     !.shallowWaterEncounters = @ + 1,
                     !.surfZoneEncounters = IF depth <= Metres(SurfDepth) THEN @ + 1 ELSE @]
             ELSE stats
      cond1 == IF shallow
               THEN [conditions EXCEPT !.shoreNormal = Some(d.shoreNormal)]
               ELSE conditions
      shallowEffects == calculateShallow(driverEnv(cond1, currentTime), depth)
      nanDrift == p1.lat = NaN \/ (shallow /\ shallowEffects.displacement = "NaN")
      newLat == IF nanDrift THEN NaN ELSE p1.lat + d.drift[1]
      newLng == IF nanDrift THEN NaN ELSE p1.lng + d.drift[2]
      newDepth == getDepthAt(field, newLat, newLng)
  IN IF shallow /\ depth <= Metres(SurfDepth) /\ d.beach
     THEN beachParticle(p1, st1, currentTime, depth, "shallow", "unknown")
            @@ [conditions |-> cond1]
     ELSE IF newDepth <= 0
     THEN LET st2 == [st1 EXCEPT !.landExclusions = @ + 1]
              interaction == checkShoreInteraction(d.shoreType, depth, d.rand)
          IN IF interaction = "beached"
             THEN beachParticle(p1, st2, currentTime, depth, "land_contact", d.shoreType)
                    @@ [conditions |-> cond1]
             ELSE IF interaction = "reflected"
             THEN [p |-> [p1 EXCEPT !.lat = @ + d.reflect[1],
                                    !.lng = @ + d.reflect[2],
                                    !.reflectionCount = @ + 1,
                                    !.age = @ + deltaSeconds],
                   stats |-> [st2 EXCEPT !.reflections = @ + 1],
                   conditions |-> cond1]
             ELSE [p |-> [p1 EXCEPT !.age = @ + deltaSeconds], stats |-> st2,
                   conditions |-> cond1]
     ELSE [p |-> [p1 EXCEPT !.lat = newLat, !.lng = newLng,
                            !.age = @ + deltaSeconds],
           stats |-> st1, conditions |-> cond1]

\* TimeSteppingSimulator.createSnapshot: a copy of every particle's id,
\* position, status and depth, the counts, and the centroid of the active
\* particles (kept as the two sums and the count; null when none is active).
createSnapshot(s) ==
  LET particles == s.particles
      active == {k \in DOMAIN particles : particles[k].status = "active"}
      beached == {k \in DOMAIN particles : particles[k].status = "beached"}
      Sum[S \in SUBSET (DOMAIN particles)] ==
        IF S = {} THEN <<0, 0>>
        ELSE LET k == CHOOSE x \in S : TRUE
                 r == Sum[S \ {k}]
             IN <<add(r[1], particles[k].lat), add(r[2], particles[k].lng)>>
  IN [time |-> s.currentTime,
      centroid |-> IF active # {}
                   THEN Some([latSum |-> Sum[active][1], lngSum |-> Sum[active][2],
                              n |-> Cardinality(active)])
                   ELSE None,
      particles |-> [k \in DOMAIN particles |->
                       [id |-> particles[k].id, lat |-> particles[k].lat,
                        lng |-> particles[k].lng, status |-> particles[k].status,
                        depth |-> particles[k].depth]],
      stats |-> [active |-> Cardinality(active),
                 beached |-> Cardinality(beached),
                 total |-> Len(particles),
                 beachedThisHour |->
                   Cardinality({b \in DOMAIN s.stats.beachingLocations :
                                  s.stats.beachingLocations[b].time = s.currentTime})]]

\* skipped passing over recovered particles only.
skipped_m(p) == p.status = "recovered"

\* The particles a step leaves alone: getActiveParticles() filters them out
\* and the forEach returns at once for a status other than active.
skipped(p) == p.status # "active"

\* StepParticles discarding the statistics of the particles it processes.
StepParticles_m(s, deltaSeconds, draws) ==
  LET run[k \in 0..Len(s.particles)] ==
        IF k = 0 THEN s
        ELSE IF skipped(run[k - 1].particles[k]) THEN run[k - 1]
        ELSE LET t == run[k - 1]
                 r == ProcessParticle(t.particles[k], t.stats, t.conditions,
                                      t.currentTime, deltaSeconds, t.depthField,
                                      draws[k])
             IN [t EXCEPT !.particles[k] = r.p,
                          !.conditions = r.conditions]
  IN run[Len(s.particles)]

\* The forEach of TimeSteppingSimulator.step over the particles that were
\* active when the step began, in array order.
StepParticles(s, deltaSeconds, draws) ==
  LET run[k \in 0..Len(s.particles)] ==
        IF k = 0 THEN s
        ELSE IF skipped(run[k - 1].particles[k]) THEN run[k - 1]
        ELSE LET t == run[k - 1]
                 r == ProcessParticle(t.particles[k], t.stats, t.conditions,
                                      t.currentTime, deltaSeconds, t.depthField,
                                      draws[k])
             IN [t EXCEPT !.particles[k] = r.p, !.stats = r.stats,
                          !.conditions = r.conditions]
  IN run[Len(s.particles)]

\* TimeSteppingSimulator.step throws a TypeError (lat.toFixed is not a
\* function) at the first active particle whose lat is not a number.
stepThrows(s) ==
  \E k \in getActiveParticles(s.particles) : ~s.particles[k].numeric

\* step with the snapshot taken before the particles are processed.
step_m(s, deltaSeconds, gust, draws) ==
  LET s0 == [s EXCEPT !.conditions = updateConditions(@, gust),
                      !.currentTime = @ + deltaSeconds]
      s1 == IF s0.currentTime % HourSeconds = 0
            THEN [s0 EXCEPT !.snapshots = Append(@, createSnapshot(s0))]
            ELSE s0
  IN StepParticles(s1, deltaSeconds, draws)

\* TimeSteppingSimulator.step(deltaSeconds): update the conditions, process
\* the particles, advance the clock, record a snapshot when the clock is a
\* multiple of 3600.
step(s, deltaSeconds, gust, draws) ==
  LET s0 == [s EXCEPT !.conditions = updateConditions(@, gust)]
      s1 == StepParticles(s0, deltaSeconds, draws)
      s2 == [s1 EXCEPT !.currentTime = @ + deltaSeconds]
  IN IF s2.currentTime % HourSeconds = 0
     THEN [s2 EXCEPT !.snapshots = Append(@, createSnapshot(s2))]
     ELSE s2

\* ------------------------------------------------------ SimulationController
\* Public methods of class SimulationController.
ControllerMethods ==
  {"startSimulation", "runSimulation", "generateResults", "getSimulationStatus",
   "getSimulationResults", "getSnapshot", "listSimulations", "deleteSimulation",
   "stopSimulation"}

NoResp == [op |-> "", id |-> 0, arg |-> None, error |-> "", value |-> None]

Reply(op, id, arg, error, value) ==
  [op |-> op, id |-> id, arg |-> arg, error |-> error, value |-> value]

\* startSimulation's validation: !config.lkp || !config.lkp.lat || !config.lkp.lng
lkpRejected(config) == config.lkp \in {"missing", "zeroLat"}

\* progress is a fraction num/den with den > 0.
Frac(n, d) == IF d < 0 THEN [num |-> -n, den |-> -d] ELSE [num |-> n, den |-> d]
FracLeq(a, b) == a.num * b.den <= b.num * a.den

\* Math.round(sim.progress): floor(x + 0.5)
roundProgress(p) == (2 * p.num + p.den) \div (2 * p.den)

\* The simulation object stored by startSimulation.
NewSimulation(id, config, field) ==
  [id |-> id, status |-> "running", progress |-> Frac(0, 1), config |-> config,
   simulator |-> NewSimulator(config.lkp, field),
   endTime |-> None, results |-> None, error |-> ""]

\* runSimulation's loop condition: step < totalSteps, with
\* totalSteps = durationHours * 3600 / timeStepSeconds.
loopContinues(stepNo, config) == stepNo * timeStepSeconds < config.durationSeconds

\* generateResults(sim): particle statistics, the snapshot list and the
\* durations; elapsed is computed from sim.endTime as it is at the call.
generateResults(s) ==
  LET ps == s.simulator.particles
  IN [simulationId |-> s.id,
      total |-> Len(ps),
      active |-> Cardinality({k \in DOMAIN ps : ps[k].status = "active"}),
      beached |-> Cardinality({k \in DOMAIN ps : ps[k].status = "beached"}),
      snapshots |-> s.simulator.snapshots,
      simulated |-> s.config.durationSeconds,
      elapsedFromEndTime |-> s.endTime]

\* runSimulation(id) of every id that may be issued.  pc and step are the
\* position in runSimulation; two counters observe the scheduling:
\*   slice   steps executed since the task last took the thread
\*   passed  passed[j] = steps task j has completed while this task was
\*           waiting in `immediates` without completing one itself
NoTasks(ids) ==
  [i \in ids |-> [pc |-> "none", step |-> 0, slice |-> 0,
                  passed |-> [j \in ids |-> 0]]]

\* task i takes the thread (runSimulation starts, or its await resolves).
takeThread(i) ==
  [task EXCEPT ![i].pc = "loop", ![i].slice = 0,
               ![i].passed = [j \in DOMAIN task |-> 0]]

\* task i has completed one step; yield tells whether it now awaits.
afterStep(i, yield) ==
  [k \in DOMAIN task |->
     IF k = i
     THEN [pc |-> IF yield THEN "await" ELSE "loop",
           step |-> task[i].step + 1,
           slice |-> task[i].slice + 1,
           passed |-> [j \in DOMAIN task |-> 0]]
     ELSE IF task[k].pc \in {"queued", "await"}
     THEN [task[k] EXCEPT !.passed[i] = @ + 1]
     ELSE task[k]]

Init ==
  /\ simulations = {}
  /\ sim = <<>>
  /\ task = NoTasks(SimIds)
  /\ immediates = <<>>
  /\ cur = 0
  /\ resp = NoResp
  /\ driverCache = None
  /\ bathymetry = None
  /\ wallClock = 0

\* startSimulation(config): validate the LKP, build the components, store the
\* simulation, schedule runSimulation with setImmediate.  field is the depth
\* field the new driver's lookups will produce.
StartSimulation(config, field) ==
  /\ cur = 0
  /\ IF lkpRejected(config)
     THEN /\ resp' = Reply("startSimulation", 0, Some(config),
                           "Invalid LKP coordinates", None)
          /\ UNCHANGED <<simulations, sim, task, immediates, cur>>
     ELSE LET id == Len(sim) + 1
          IN /\ id \in DOMAIN task
             /\ sim' = Append(sim, NewSimulation(id, config, field))
             /\ simulations' = simulations \cup {id}
             /\ task' = [task EXCEPT ![id].pc = "queued"]
             /\ immediates' = Append(immediates, id)
             /\ resp' = Reply("startSimulation", id, Some(config), "", Some("started"))
             /\ UNCHANGED cur
  /\ UNCHANGED <<driverCache, bathymetry, wallClock>>

\* runSimulation(id), from its start to the head of the for loop.
RunSimulation(i) ==
  /\ cur = 0
  /\ task[i].pc = "queued"
  /\ immediates # <<>> /\ Head(immediates) = i
  /\ immediates' = Tail(immediates)
  /\ IF i \in simulations
     THEN /\ task' = takeThread(i)
          /\ cur' = i
     ELSE /\ task' = [task EXCEPT ![i].pc = "done"]
          /\ UNCHANGED cur
  /\ resp' = NoResp
  /\ UNCHANGED <<simulations, sim>>
  /\ UNCHANGED <<driverCache, bathymetry, wallClock>>

\* the await taken every twentieth step.
yields_m(stepNo) == stepNo % (2 * YieldEvery) = 0

\* runSimulation's `if (step % 10 === 0) await new Promise(setImmediate)`.
yields(stepNo) == stepNo % YieldEvery = 0

\* One iteration of runSimulation's for loop: simulator.step, the progress
\* assignment, and the await when step % 10 === 0.  An exception thrown by
\* step lands in the catch block.
LoopStep(i, WindGusts, Draws) ==
  /\ cur = i
  /\ task[i].pc = "loop"
  /\ loopContinues(task[i].step, sim[i].config)
  /\ IF stepThrows(sim[i].simulator)
     THEN /\ sim' = [sim EXCEPT ![i].status = "failed",
                                ![i].error = "lat.toFixed is not a function"]
          /\ task' = [task EXCEPT ![i].pc = "done"]
          /\ cur' = 0
          /\ UNCHANGED immediates
     ELSE \E gust \in WindGusts, draws \in [1..NumParticles -> Draws] :
            /\ sim' = [sim EXCEPT
                         ![i].simulator = step(@, timeStepSeconds, gust, draws),
                         ![i].progress =
                            Frac((task[i].step + 1) * timeStepSeconds * 100,
                                 sim[i].config.durationSeconds)]
            /\ IF yields(task[i].step)
               THEN /\ task' = afterStep(i, TRUE)
                    /\ immediates' = Append(immediates, i)
                    /\ cur' = 0
               ELSE /\ task' = afterStep(i, FALSE)
                    /\ UNCHANGED <<immediates, cur>>
  /\ resp' = NoResp
  /\ UNCHANGED simulations
  /\ UNCHANGED <<driverCache, bathymetry, wallClock>>

\* The setImmediate of the await fires: the loop goes on.
Resume(i) ==
  /\ cur = 0
  /\ task[i].pc = "await"
  /\ immediates # <<>> /\ Head(immediates) = i
  /\ immediates' = Tail(immediates)
  /\ task' = takeThread(i)
  /\ cur' = i
  /\ resp' = NoResp
  /\ UNCHANGED <<simulations, sim>>
  /\ UNCHANGED <<driverCache, bathymetry, wallClock>>

\* The loop condition is false: status, results, endTime and progress are
\* assigned in this order, with no await in between.
Complete(i) ==
  /\ cur = i
  /\ task[i].pc = "loop"
  /\ ~loopContinues(task[i].step, sim[i].config)
  /\ LET s1 == [sim[i] EXCEPT !.status = "completed"]
         s2 == [s1 EXCEPT !.results = Some(generateResults(s1))]
     IN sim' = [sim EXCEPT ![i] = [s2 EXCEPT !.endTime = Some("now"),
                                             !.progress = Frac(100, 1)]]
  /\ task' = [task EXCEPT ![i].pc = "done"]
  /\ cur' = 0
  /\ resp' = NoResp
  /\ UNCHANGED <<simulations, immediates>>
  /\ UNCHANGED <<driverCache, bathymetry, wallClock>>

\* getSimulationStatus(id)
GetSimulationStatus(i) ==
  /\ cur = 0
  /\ resp' = IF i \notin simulations
             THEN Reply("getSimulationStatus", i, None, "Simulation not found", None)
             ELSE Reply("getSimulationStatus", i, None, "",
                        Some([id |-> sim[i].id, status |-> sim[i].status,
                              progress |-> roundProgress(sim[i].progress),
                              endTime |-> sim[i].endTime, error |-> sim[i].error]))
  /\ UNCHANGED <<simulations, sim, task, immediates, cur>>
  /\ UNCHANGED <<driverCache, bathymetry, wallClock>>

\* getSimulationResults refusing only a running simulation.
GetSimulationResults_m(i) ==
  /\ cur = 0
  /\ resp' = IF i \notin simulations
             THEN Reply("getSimulationResults", i, None, "Simulation not found", None)
             ELSE IF sim[i].status = "running"
             THEN Reply("getSimulationResults", i, None,
                        "Simulation not completed yet", None)
             ELSE Reply("getSimulationResults", i, None, "", sim[i].results)
  /\ UNCHANGED <<simulations, sim, task, immediates, cur>>
  /\ UNCHANGED <<driverCache, bathymetry, wallClock>>

\* getSimulationResults(id)
GetSimulationResults(i) ==
  /\ cur = 0
  /\ resp' = IF i \notin simulations
             THEN Reply("getSimulationResults", i, None, "Simulation not found", None)
             ELSE IF sim[i].status # "completed"
             THEN Reply("getSimulationResults", i, None,
                        "Simulation not completed yet", None)
             ELSE Reply("getSimulationResults", i, None, "", sim[i].results)
  /\ UNCHANGED <<simulations, sim, task, immediates, cur>>
  /\ UNCHANGED <<driverCache, bathymetry, wallClock>>

\* find taking hour as a zero-based index of the hourly list.
findSnapshot_m(snapshots, hour) ==
  LET hits == {k \in DOMAIN snapshots : snapshots[k].time = (hour + 1) * HourSeconds}
  IN IF hits = {} THEN None
     ELSE Some(snapshots[CHOOSE k \in hits : \A j \in hits : k <= j])

\* snapshots.find(s => s.time === hour * 3600)
findSnapshot(snapshots, hour) ==
  LET hits == {k \in DOMAIN snapshots : snapshots[k].time = hour * HourSeconds}
  IN IF hits = {} THEN None
     ELSE Some(snapshots[CHOOSE k \in hits : \A j \in hits : k <= j])

\* getSnapshot(id, hour)
GetSnapshot(i, hour) ==
  /\ cur = 0
  /\ resp' = IF i \notin simulations
             THEN Reply("getSnapshot", i, Some(hour), "Simulation not found", None)
             ELSE LET snapshot == findSnapshot(sim[i].simulator.snapshots, hour)
                  IN IF snapshot = None
                     THEN Reply("getSnapshot", i, Some(hour),
                                "Snapshot not found for specified hour", None)
                     ELSE Reply("getSnapshot", i, Some(hour), "", snapshot)
  /\ UNCHANGED <<simulations, sim, task, immediates, cur>>
  /\ UNCHANGED <<driverCache, bathymetry, wallClock>>

\* simulationController[method](id) for the two id-taking mutators; a name
\* that is not a method of the class is a TypeError.
Invoke(op, method, i) ==
  IF method \notin ControllerMethods
  THEN /\ resp' = Reply(op, i, None, "simulationController." \o method
                                        \o " is not a function", None)
       /\ UNCHANGED <<simulations, sim>>
  ELSE IF i \notin simulations
  THEN /\ resp' = Reply(op, i, None, "Simulation not found", None)
       /\ UNCHANGED <<simulations, sim>>
  ELSE IF method = "deleteSimulation"
  THEN /\ simulations' = simulations \ {i}
       /\ resp' = Reply(op, i, None, "", None)
       /\ UNCHANGED sim
  ELSE /\ method = "stopSimulation"
       /\ sim' = IF sim[i].status = "running"
                 THEN [sim EXCEPT ![i].status = "stopped"]
                 ELSE sim
       /\ resp' = Reply(op, i, None, "", None)
       /\ UNCHANGED simulations

\* deleteSimulation(id)
DeleteSimulation(i) ==
  /\ cur = 0
  /\ Invoke("deleteSimulation", "deleteSimulation", i)
  /\ UNCHANGED <<task, immediates, cur>>
  /\ UNCHANGED <<driverCache, bathymetry, wallClock>>

\* stopSimulation(id)
StopSimulation(i) ==
  /\ cur = 0
  /\ Invoke("stopSimulation", "stopSimulation", i)
  /\ UNCHANGED <<task, immediates, cur>>
  /\ UNCHANGED <<driverCache, bathymetry, wallClock>>

\* app.delete('/api/simulations/:id'): calls
\* simulationController.cancelSimulation(req.params.id); any exception is
\* answered with status 404.
DeleteRoute(i) ==
  /\ cur = 0
  /\ Invoke("DELETE /api/simulations/:id", "cancelSimulation", i)
  /\ UNCHANGED <<task, immediates, cur>>
  /\ UNCHANGED <<driverCache, bathymetry, wallClock>>

Next ==
  \/ \E config \in Configs, field \in RegistryFields : StartSimulation(config, field)
  \/ \E i \in SimIds : RunSimulation(i)
  \/ \E i \in SimIds : LoopStep(i, {0}, RegistryDraws)
  \/ \E i \in SimIds : Resume(i)
  \/ \E i \in SimIds : Complete(i)
  \/ \E i \in SimIds : GetSimulationStatus(i)
  \/ \E i \in SimIds : GetSimulationResults(i)
  \/ \E i \in SimIds, hour \in 0..(MaxHours + 1) : GetSnapshot(i, hour)
  \/ \E i \in SimIds : DeleteSimulation(i)
  \/ \E i \in SimIds : StopSimulation(i)
  \/ \E i \in SimIds : DeleteRoute(i)

Spec == Init /\ [][Next]_vars

\* The time-stepping driver on its own: one request with a numeric LKP, a
\* known object type and the longest whole-hour duration is started and its
\* run loop is followed with every outcome of the per-particle draws.
DriverConfigs == {Config("numeric", "kayak", MaxHours * HourSeconds)}

NextDriver ==
  \/ \E config \in DriverConfigs, field \in BuiltinFields :
       sim = <<>> /\ StartSimulation(config, field)
  \/ \E i \in SimIds : RunSimulation(i)
  \/ \E i \in SimIds : LoopStep(i, {0}, BuiltinDraws)
  \/ \E i \in SimIds : Resume(i)
  \/ \E i \in SimIds : Complete(i)

SpecDriver == Init /\ [][NextDriver]_vars

\* Simulations side by side: up to SchedSims requests, each for a run of two
\* steps or of MaxHours hours, are started at any moment; their run loops
\* share the thread through setImmediate, and status requests come in
\* between the turns.
SchedConfigs ==
  {Config("numeric", "kayak", d) : d \in {2 * timeStepSeconds, MaxHours * HourSeconds}}

InitSched ==
  /\ simulations = {}
  /\ sim = <<>>
  /\ task = NoTasks(1..SchedSims)
  /\ immediates = <<>>
  /\ cur = 0
  /\ resp = NoResp
  /\ driverCache = None
  /\ bathymetry = None
  /\ wallClock = 0

NextSched ==
  \/ \E config \in SchedConfigs : StartSimulation(config, "flat")
  \/ \E i \in 1..SchedSims : RunSimulation(i)
  \/ \E i \in 1..SchedSims : LoopStep(i, {0}, RegistryDraws)
  \/ \E i \in 1..SchedSims : Resume(i)
  \/ \E i \in 1..SchedSims : Complete(i)
  \/ \E i \in 1..SchedSims : GetSimulationStatus(i)

SpecSched == InitSched /\ [][NextSched]_vars

\* ------------------------------------------------- the driver as a library
\* A caller builds a particle engine, an environmental manager and a
\* TimeSteppingSimulator as startSimulation does, keeps the driver outside the
\* registry and calls its methods itself.
NewDriver(config, field) ==
  /\ cur = 0
  /\ sim = <<>>
  /\ sim' = <<NewSimulation(1, config, field)>>
  /\ resp' = NoResp
  /\ UNCHANGED <<simulations, task, immediates, cur>>
  /\ UNCHANGED <<driverCache, bathymetry, wallClock>>

\* simulator.step(deltaSeconds) called by the caller.
Step(i, deltaSeconds, gust, draws) ==
  /\ cur = 0
  /\ i \in DOMAIN sim
  /\ task[i].pc = "none"
  /\ ~stepThrows(sim[i].simulator)
  /\ sim' = [sim EXCEPT ![i].simulator = step(@, deltaSeconds, gust, draws)]
  /\ resp' = NoResp
  /\ UNCHANGED <<simulations, task, immediates, cur>>
  /\ UNCHANGED <<driverCache, bathymetry, wallClock>>

\* ParticleEngine.updateParticle(id, updates) with updates = { status }.
UpdateParticle(i, k, updates) ==
  /\ cur = 0
  /\ i \in DOMAIN sim
  /\ k \in DOMAIN sim[i].simulator.particles
  /\ sim[i].simulator.particles[k].status # updates.status
  /\ sim' = [sim EXCEPT ![i].simulator.particles[k].status = updates.status]
  /\ resp' = NoResp
  /\ UNCHANGED <<simulations, task, immediates, cur>>
  /\ UNCHANGED <<driverCache, bathymetry, wallClock>>

\* environmentalManager.conditions assigned by the caller.
SetConditions(i, conditions) ==
  /\ cur = 0
  /\ i \in DOMAIN sim
  /\ sim[i].simulator.conditions # conditions
  /\ sim' = [sim EXCEPT ![i].simulator.conditions = conditions]
  /\ resp' = NoResp
  /\ UNCHANGED <<simulations, task, immediates, cur>>
  /\ UNCHANGED <<driverCache, bathymetry, wallClock>>

\* simulator.diffusionCalc.setDiffusionRate(rate)
SetDiffusionRate(i, rate) ==
  /\ cur = 0
  /\ i \in DOMAIN sim
  /\ sim[i].simulator.diffusionRate # rate
  /\ sim' = [sim EXCEPT ![i].simulator.diffusionRate = rate]
  /\ resp' = NoResp
  /\ UNCHANGED <<simulations, task, immediates, cur>>
  /\ UNCHANGED <<driverCache, bathymetry, wallClock>>

\* The caller takes at most MaxSteps steps of deltaSeconds each.
stepsLeft(i, deltaSeconds) ==
  /\ i \in DOMAIN sim
  /\ sim[i].simulator.currentTime < MaxSteps * deltaSeconds

\* A driver on a shore: getDepthAt answers from a shore field, the particles
\* drift towards the shore or away from it in half-hour steps, and the caller
\* may mark a particle recovered between steps.
NextShore ==
  \/ \E field \in ShoreFields : NewDriver(Config("numeric", "kayak", HourSeconds), field)
  \/ /\ stepsLeft(1, HourSeconds \div 2)
     /\ \E draws \in [1..NumParticles -> ShoreDraws] :
          Step(1, HourSeconds \div 2, 0, draws)
  \/ \E k \in 1..NumParticles : UpdateParticle(1, k, [status |-> "recovered"])

SpecShore == Init /\ [][NextShore]_vars

\* Directions of a reflection: checkShoreInteraction pushes the particle
\* 10 to 30 m along shoreNormal + 180 (+/- 30) degrees, where shoreNormal is
\* the driver's getShoreNormal, Math.random() * 360: away from the shore or
\* towards it.
Reflections == {<<-1, 0>>, <<1, 0>>}

\* Draws of a driver on a sandy shelf: the drift sets towards the shore, a
\* reflection goes either way.
LandDraws ==
  {[drift |-> drift, beach |-> beach, rand |-> rand, shoreType |-> "sandy",
    shoreNormal |-> shoreNormal, reflect |-> reflect] :
     drift \in {<<1, 0>>}, beach \in BOOLEAN, rand \in ShoreRolls,
     shoreNormal \in ShoreNormals, reflect \in Reflections}

\* A driver on the shelf stepped by its caller in half-hour steps, the wind
\* changing from step to step.
NextLand ==
  \/ NewDriver(Config("numeric", "kayak", HourSeconds), "shelf")
  \/ /\ stepsLeft(1, HourSeconds \div 2)
     /\ \E gust \in Gusts :
          \E draws \in [1..NumParticles -> LandDraws] :
            Step(1, HourSeconds \div 2, gust, draws)

SpecLand == Init /\ [][NextLand]_vars

\* A driver far from shore whose caller zeroes the forcings and the
\* diffusion rate, in either order, and then steps it; every outcome of
\* updateConditions, of getConditionsAt and of the diffusion angle is followed.
NextCalm ==
  \/ NewDriver(Config("numeric", "kayak", HourSeconds), "flat")
  \/ /\ sim # <<>> /\ sim[1].simulator.currentTime = 0
     /\ SetConditions(1, CalmConditions)
  \/ /\ sim # <<>> /\ sim[1].simulator.currentTime = 0
     /\ SetDiffusionRate(1, 0)
  \/ /\ stepsLeft(1, timeStepSeconds)
     /\ sim[1].simulator.diffusionRate = 0
     /\ sim[1].simulator.conditions.waveHeight = 0
     /\ \E gust \in Gusts :
          \E draws \in [1..NumParticles ->
                          DrawsUnder(updateConditions(sim[1].simulator.conditions, gust))] :
            Step(1, timeStepSeconds, gust, draws)

SpecCalm == Init /\ [][NextCalm]_vars

\* Step sizes a caller may pass to step: the configured 600 s, which divides
\* the hour, 1000 s, which does not, and 4000 s, which is longer than an hour.
StepSizes == {timeStepSeconds, 1000, 4000}

\* A driver far from shore stepped by its caller with any of the step sizes
\* until the clock has passed MaxHours hours.
NextClock ==
  \/ NewDriver(Config("numeric", "kayak", MaxHours * HourSeconds), "flat")
  \/ /\ sim # <<>>
     /\ sim[1].simulator.currentTime < MaxHours * HourSeconds
     /\ \E deltaSeconds \in StepSizes :
          \E draws \in [1..NumParticles -> RegistryDraws] :
            Step(1, deltaSeconds, 0, draws)

SpecClock == Init /\ [][NextClock]_vars

\* -------------------------------------------- the containment calculator
\* Array.prototype.sort with a comparator: a stable sort.  before[<<i, j>>]
\* tells that the comparator is negative for (seq[i], seq[j]).
sortBy(seq, before) ==
  LET insert(sorted, x) ==
        LET j == CHOOSE j \in 1..(Len(sorted) + 1) :
                   /\ j = Len(sorted) + 1 \/ before[<<x, sorted[j]>>]
                   /\ \A h \in 1..(j - 1) : ~before[<<x, sorted[h]>>]
        IN SubSeq(sorted, 1, j - 1) \o <<x>> \o SubSeq(sorted, j, Len(sorted))
      ins[k \in 0..Len(seq)] ==
        IF k = 0 THEN <<>> ELSE insert(ins[k - 1], k)
      order == ins[Len(seq)]
  IN [k \in 1..Len(seq) |-> seq[order[k]]]

\* convexHull's cross(o, a, b): cross product of the vectors OA and OB.
cross(o, a, b) ==
  (a.lat - o.lat) * (b.lng - o.lng) - (a.lng - o.lng) * (b.lat - o.lat)

\* keeps retaining a point that lies on the line through the two before it.
keeps_m(o, a, b) == cross(o, a, b) >= 0

\* The negation of the while condition of either hull loop: the last point
\* of the half hull is kept when the new point makes a left turn after it.
keeps(o, a, b) == cross(o, a, b) > 0

\* `while (hull.length >= 2 && cross(...) <= 0) hull.pop()`
RECURSIVE popWhile(_, _)
popWhile(hull, p) ==
  IF Len(hull) >= 2 /\ ~keeps(hull[Len(hull) - 1], hull[Len(hull)], p)
  THEN popWhile(SubSeq(hull, 1, Len(hull) - 1), p)
  ELSE hull

\* One of the two for loops of convexHull, over points in the given order.
halfHull(points) ==
  LET build[k \in 0..Len(points)] ==
        IF k = 0 THEN <<>>
        ELSE Append(popWhile(build[k - 1], points[k]), points[k])
  IN build[Len(points)]

\* ProbabilityCalculator.convexHull(points)
convexHull(points) ==
  LET byLatThenLng ==
        [ij \in (DOMAIN points) \X (DOMAIN points) |->
           LET a == points[ij[1]]
               b == points[ij[2]]
           IN a.lat < b.lat \/ (a.lat = b.lat /\ a.lng < b.lng)]
      sorted == sortBy(points, byLatThenLng)
      lower == halfHull(sorted)
      upper == halfHull([k \in 1..Len(sorted) |-> sorted[Len(sorted) + 1 - k]])
  IN SubSeq(lower, 1, Len(lower) - 1) \o SubSeq(upper, 1, Len(upper) - 1)

\* ProbabilityCalculator.createPolygon(particles)
createPolygon(particles) ==
  IF Len(particles) < 3 THEN <<>>
  ELSE convexHull([k \in 1..Len(particles) |->
                     [lat |-> particles[k].lat, lng |-> particles[k].lng]])

\* Positions handed to calculate are in half degrees.  cos of a latitude in
\* ten-thousandths, and sin^2 of half an angle in ten-millionths, for the
\* angles 0, 0.5, 1 and 1.5 degrees.
cosOf(halfDegrees) ==
  LET h == IF halfDegrees < 0 THEN -halfDegrees ELSE halfDegrees
  IN CASE h = 0 -> 10000 [] h = 1 -> 10000 [] h = 2 -> 9998 [] h = 3 -> 9997

sinSqHalf(halfDegrees) ==
  LET h == IF halfDegrees < 0 THEN -halfDegrees ELSE halfDegrees
  IN CASE h = 0 -> 0 [] h = 1 -> 190 [] h = 2 -> 762 [] h = 3 -> 1713

\* ProbabilityCalculator.calculateDistance: the haversine term a, of which
\* the distance R * 2 * atan2(sqrt(a), sqrt(1 - a)) is an increasing function.
calculateDistance(lat1, lng1, lat2, lng2) ==
  sinSqHalf(lat2 - lat1) * 10000
    + ((cosOf(lat1) * cosOf(lat2)) \div 10000) * sinSqHalf(lng2 - lng1)

\* ProbabilityCalculator.calculateCentroid (the ensembles enumerated have
\* their centroid on the half-degree grid).
calculateCentroid(particles) ==
  LET sum[k \in 0..Len(particles)] ==
        IF k = 0 THEN [lat |-> 0, lng |-> 0]
        ELSE [lat |-> sum[k - 1].lat + particles[k].lat,
              lng |-> sum[k - 1].lng + particles[k].lng]
  IN [lat |-> sum[Len(particles)].lat \div Len(particles),
      lng |-> sum[Len(particles)].lng \div Len(particles)]

\* Math.floor(sorted.length * percent / 100)
percentileIndex(n, percent) == (n * percent) \div 100

\* ProbabilityCalculator.calculate(particles), without the confidence.
calculate(particles) ==
  LET activeParticles == SelectSeq(particles, LAMBDA q : q.status = "active")
  IN IF Len(activeParticles) < 3
     THEN [polygon50 |-> <<>>, polygon90 |-> <<>>, polygon95 |-> <<>>,
           centroid |-> None]
     ELSE LET centroid == calculateCentroid(activeParticles)
              withDistance ==
                [k \in 1..Len(activeParticles) |->
                   [lat |-> activeParticles[k].lat, lng |-> activeParticles[k].lng,
                    distance |-> calculateDistance(activeParticles[k].lat,
                                                   activeParticles[k].lng,
                                                   centroid.lat, centroid.lng)]]
              byDistance ==
                [ij \in (DOMAIN withDistance) \X (DOMAIN withDistance) |->
                   withDistance[ij[1]].distance < withDistance[ij[2]].distance]
              sorted == sortBy(withDistance, byDistance)
              prefix(percent) ==
                SubSeq(sorted, 1, percentileIndex(Len(sorted), percent))
          IN [polygon50 |-> createPolygon(prefix(50)),
              polygon90 |-> createPolygon(prefix(90)),
              polygon95 |-> createPolygon(prefix(95)),
              centroid |-> Some(centroid)]

\* Arguments of convexHull: every list of 3..MaxPoints points of a 3 x 3 grid.
GridPoints == [lat : 0..2, lng : 0..2]

HullInputs == UNION {[1..n -> GridPoints] : n \in 3..MaxPoints}

\* Arguments of calculate: the five particles at (0,0), (0,1), (1,0), (1,1)
\* and (0.5,0.5) degrees, all active, in every array order.
ScenarioPositions == {<<0, 0>>, <<0, 2>>, <<2, 0>>, <<2, 2>>, <<1, 1>>}

EnsembleInputs ==
  {[k \in 1..5 |-> [lat |-> f[k][1], lng |-> f[k][2], status |-> "active"]] :
     f \in {g \in [1..5 -> ScenarioPositions] :
              \A h, k \in 1..5 : h # k => g[h] # g[k]}}

\* A caller about to call convexHull(points) or calculate(particles).
InitCalculator ==
  /\ simulations = {}
  /\ sim = <<>>
  /\ task = NoTasks(SimIds)
  /\ immediates = <<>>
  /\ cur = 0
  /\ resp \in {Reply("convexHull", 0, Some(points), "", None) : points \in HullInputs}
              \cup {Reply("calculate", 0, Some(particles), "", None) :
                       particles \in EnsembleInputs}
  /\ driverCache = None
  /\ bathymetry = None
  /\ wallClock = 0

ConvexHull ==
  /\ resp.op = "convexHull" /\ resp.value = None
  /\ resp' = [resp EXCEPT !.value = Some(convexHull(resp.arg[1]))]
  /\ UNCHANGED <<simulations, sim, task, immediates, cur>>
  /\ UNCHANGED <<driverCache, bathymetry, wallClock>>

Calculate ==
  /\ resp.op = "calculate" /\ resp.value = None
  /\ resp' = [resp EXCEPT !.value = Some(calculate(resp.arg[1]))]
  /\ UNCHANGED <<simulations, sim, task, immediates, cur>>
  /\ UNCHANGED <<driverCache, bathymetry, wallClock>>

NextCalculator == ConvexHull \/ Calculate

SpecCalculator == InitCalculator /\ [][NextCalculator]_vars

\* ------------------------------------- shallow-water physics, called directly
\* Arguments of a direct call of calculate: depths on both sides of each
\* threshold and on it, on the waterline and on land; a still or a running
\* current, waves of 1 m or 4 m, with or without tidal data, a bathymetry
\* gradient, an oblique wave approach and a rip-current risk above 0.5.
ShallowDepths ==
  {-Metres(2), 0, 3, Metres(2), Metres(4), Metres(5), Metres(15),
   Metres(20), Metres(21), Metres(35)}

ShallowInputs ==
  [depth : ShallowDepths,
   env : [current : {0, 5}, waveHeight : {1, 4},
          tidal : {"absent", "slack", "flood"}, gradient : {"absent", "steep"},
          oblique : BOOLEAN, rip : BOOLEAN]]

\* A caller about to call shallowWaterPhysics.calculate(particle, env, depth, dt).
InitShallow ==
  /\ simulations = {}
  /\ sim = <<>>
  /\ task = NoTasks(SimIds)
  /\ immediates = <<>>
  /\ cur = 0
  /\ resp \in {Reply("calculate", 0, Some(input), "", None) : input \in ShallowInputs}
  /\ driverCache = None
  /\ bathymetry = None
  /\ wallClock = 0

CalculateShallow ==
  /\ resp.op = "calculate" /\ resp.value = None
  /\ resp' = [resp EXCEPT
                !.value = Some(calculateShallow(resp.arg[1].env, resp.arg[1].depth))]
  /\ UNCHANGED <<simulations, sim, task, immediates, cur>>
  /\ UNCHANGED <<driverCache, bathymetry, wallClock>>

NextShallow == CalculateShallow

SpecShallow == InitShallow /\ [][NextShallow]_vars

\* ------------------------------------------- the driver's depth cache alone
\* A driver is built for an ensemble and stepped; of each step only the depth
\* lookups are followed.  The ensemble lies along a meridian, as diffusion has
\* spread it or as a caller has laid it out with updateParticle: small
\* ensembles, and the ensemble of a request that gives no particleCount, one
\* particle per cache key.
Ensembles ==
  [count : {1, 2}, spacing : {1, 3}, base : {0, 1}, lng : {0, 2}]
    \cup {[count |-> DefaultParticleCount, spacing |-> 3, base |-> 0, lng |-> 0]}

EnsembleDrifts == {0, 1, 3}

NewCachedDriver(ensemble) ==
  /\ driverCache = None
  /\ driverCache' = Some([ensemble |-> ensemble, steps |-> 0,
                          depthCache |-> NewMap(DriverKeys)])
  /\ UNCHANGED <<simulations, sim, task, immediates, cur, resp, bathymetry, wallClock>>

\* step(deltaSeconds), its depth lookups only.
StepLookups(drift) ==
  /\ driverCache # None
  /\ driverCache[1].steps < MaxCacheSteps
  /\ LET d == driverCache[1]
     IN driverCache' =
          Some([ensemble |-> [d.ensemble EXCEPT !.base = @ + drift],
                steps |-> d.steps + 1,
                depthCache |-> stepLookups(d.depthCache, d.ensemble, drift,
                                           1, 2 * d.ensemble.count)])
  /\ UNCHANGED <<simulations, sim, task, immediates, cur, resp, bathymetry, wallClock>>

NextDriverCache ==
  \/ \E ensemble \in Ensembles : NewCachedDriver(ensemble)
  \/ \E drift \in EnsembleDrifts : StepLookups(drift)

SpecDriverCache == Init /\ [][NextDriverCache]_vars

\* ---------------------------------------------------- the bathymetry service
\* A BathymetryService and its callers.  The first request may be for the
\* depth grid of the whole area, 100 by 100 cells at the service's own grid
\* resolution; afterwards single depths and small grids are asked for while
\* the clock advances by half the cache timeout at a time.
MaxRequests == 2
MaxTicks == 2

WholeArea == [south |-> 0, north |-> 990, west |-> 0, east |-> 990]
SmallAreas == {[south |-> 0, north |-> 10, west |-> 0, east |-> 10]}
ServicePositions == {<<0, 0>>, <<1000, 0>>, <<1004, 3>>}

InitBathymetry ==
  /\ simulations = {}
  /\ sim = <<>>
  /\ task = NoTasks(SimIds)
  /\ immediates = <<>>
  /\ cur = 0
  /\ resp = NoResp
  /\ driverCache = None
  /\ bathymetry = Some(NewBathymetryService)
  /\ wallClock = 0

\* await bathymetryService.getDepth(lat, lng)
GetDepth(lat, lng, answer) ==
  /\ bathymetry[1].requests < MaxRequests
  /\ LET r == getDepth(bathymetry[1].depthCache, lat, lng, answer, wallClock)
     IN /\ bathymetry' = Some([depthCache |-> r.cache,
                               requests |-> bathymetry[1].requests + 1])
        /\ resp' = Reply("getDepth", 0, Some(<<lat, lng>>), "", Some(r.data))
  /\ UNCHANGED <<simulations, sim, task, immediates, cur, driverCache, wallClock>>

\* await bathymetryService.getDepthGrid(bounds, resolution); of the grid
\* returned, the numbers of rows and columns are kept.
GetDepthGrid(bounds, resolution, answer) ==
  /\ bathymetry[1].requests < MaxRequests
  /\ LET r == getDepthGrid(bathymetry[1].depthCache, bounds, resolution, answer, wallClock)
     IN /\ bathymetry' = Some([depthCache |-> r.cache,
                               requests |-> bathymetry[1].requests + 1])
        /\ resp' = Reply("getDepthGrid", 0, Some(bounds), "",
                         Some([rows |-> r.rows, cols |-> r.cols]))
  /\ UNCHANGED <<simulations, sim, task, immediates, cur, driverCache, wallClock>>

\* Time passes between two requests.
Tick ==
  /\ wallClock < MaxTicks * (cacheTimeout \div 2)
  /\ wallClock' = wallClock + cacheTimeout \div 2
  /\ UNCHANGED <<simulations, sim, task, immediates, cur, resp, driverCache, bathymetry>>

NextBathymetry ==
  \/ \E pos \in ServicePositions, answer \in Answers : GetDepth(pos[1], pos[2], answer)
  \/ bathymetry[1].requests = 0
       /\ GetDepthGrid(WholeArea, 10, [crm |-> None, bag |-> None])
  \/ \E bounds \in SmallAreas : GetDepthGrid(bounds, 10, [crm |-> Some(CrmData), bag |-> None])
  \/ Tick

SpecBathymetry == InitBathymetry /\ [][NextBathymetry]_vars

TypeOK ==
  /\ simulations \subseteq DOMAIN sim
  /\ cur \in {0} \cup DOMAIN task
  /\ \A k \in DOMAIN immediates : task[immediates[k]].pc \in {"queued", "await"}

\* ===================================================================== claims

\* C1: once stopSimulation has turned a running simulation to stopped, the
\* run loop executes no further step for it: its simulator's current time,
\* particles and snapshot list stay what they were when stop returned.
C1_StopHaltsRun ==
  [][\A i \in DOMAIN sim :
       sim[i].status = "stopped" => sim'[i].simulator = sim[i].simulator]_vars

\* C2: the statuses stopped and failed are terminal: no later event changes
\* them, so a stopped simulation is never afterwards completed.
C2_TerminalStatuses ==
  [][\A i \in DOMAIN sim :
       sim[i].status \in {"stopped", "failed"} => sim'[i].status = sim[i].status]_vars

\* C3: the progress of every accepted simulation never decreases, the final
\* assignment of the run loop included, and never exceeds 100.
C3_ProgressMonotone ==
  [][\A i \in DOMAIN sim :
       /\ FracLeq(sim[i].progress, sim'[i].progress)
       /\ FracLeq(sim'[i].progress, Frac(100, 1))]_vars

C5_RunsExactlyTotalSteps ==
  \A i \in DOMAIN sim :
    (task[i].pc = "done" /\ i \in simulations /\ sim[i].config.durationSeconds > 0)
      => /\ sim[i].status = "completed"
         /\ task[i].step * timeStepSeconds = sim[i].config.durationSeconds

\* C6: a DELETE request on simulations/{id} for an id in the registry removes
\* it from the registry.
C6_DeleteRouteRemoves ==
  [][(resp'.op = "DELETE /api/simulations/:id" /\ resp'.id \in simulations)
       => resp'.id \notin simulations']_vars

\* C7: a simulation that has been deleted is no longer advanced: no step on
\* its particles, no new snapshot, no status update.
C7_DeletedNotAdvanced ==
  [][\A i \in DOMAIN sim : i \notin simulations => sim'[i] = sim[i]]_vars

\* A configuration with a usable LKP, an enumerated object type and a
\* positive duration.
ValidConfig(config) ==
  /\ config.lkp \in {"numeric", "zeroLat"}
  /\ config.objectType \in leewayFactors
  /\ config.durationSeconds > 0

\* C8: startSimulation raises an error and stores nothing exactly when the
\* LKP is missing or invalid, the object type is not enumerated or the
\* duration is not positive; every other configuration is accepted.
C8_StartValidates ==
  /\ resp.op = "startSimulation" =>
        /\ (resp.error # "") <=> ~ValidConfig(resp.arg[1])
        /\ resp.error # "" => resp.id = 0
  /\ \A i \in DOMAIN sim : ValidConfig(sim[i].config)

\* C9: a simulation completed with a whole number D of hours holds exactly D
\* snapshots, the h-th at time h * 3600; getSnapshot(id, h) returns that
\* snapshot for h in 1..D and raises not-found for any other hour, 0 included.
C9_HourlySnapshots ==
  /\ \A i \in DOMAIN sim :
       LET d == sim[i].config.durationSeconds
           snapshots == sim[i].simulator.snapshots
       IN (sim[i].status = "completed" /\ d % HourSeconds = 0) =>
            /\ Len(snapshots) = IF d > 0 THEN d \div HourSeconds ELSE 0
            /\ \A h \in DOMAIN snapshots : snapshots[h].time = h * HourSeconds
  /\ (/\ resp.op = "getSnapshot"
      /\ resp.id \in simulations
      /\ sim[resp.id].status = "completed"
      /\ sim[resp.id].config.durationSeconds % HourSeconds = 0) =>
        LET snapshots == sim[resp.id].simulator.snapshots
            h == resp.arg[1]
        IN IF h \in 1..(sim[resp.id].config.durationSeconds \div HourSeconds)
           THEN resp.error = "" /\ resp.value = Some(snapshots[h])
           ELSE resp.error = "Snapshot not found for specified hour"
                /\ resp.value = None

\* C9 witness: the last hour's snapshot of a completed MaxHours-hour run was
\* asked for and returned.
C9_Witness ==
  /\ resp.op = "getSnapshot"
  /\ resp.id \in simulations
  /\ sim[resp.id].status = "completed"
  /\ sim[resp.id].config.durationSeconds = MaxHours * HourSeconds
  /\ resp.arg = Some(MaxHours)
  /\ resp.error = ""
  /\ resp.value # None

\* The copy of the ensemble a snapshot must hold.
EnsembleView(particles) ==
  [k \in DOMAIN particles |->
     [id |-> particles[k].id, lat |-> particles[k].lat, lng |-> particles[k].lng,
      status |-> particles[k].status, depth |-> particles[k].depth]]

\* C10: the snapshot for hour N is appended only at the end of the step that
\* brings the current time to N * 3600, after every particle that was active
\* has been processed; its counts, positions and statuses are those of the
\* ensemble at that moment; snapshots already recorded are never altered.
C10_SnapshotAtStepEnd ==
  [][\A i \in DOMAIN sim :
       LET old == sim[i].simulator
           new == sim'[i].simulator
           n == Len(old.snapshots)
       IN /\ Len(new.snapshots) >= n
          /\ SubSeq(new.snapshots, 1, n) = old.snapshots
          /\ Len(new.snapshots) > n =>
               LET snap == new.snapshots[n + 1]
               IN /\ Len(new.snapshots) = n + 1
                  /\ new.currentTime = old.currentTime + timeStepSeconds
                  /\ new.currentTime = (n + 1) * HourSeconds
                  /\ snap.time = new.currentTime
                  /\ \A k \in getActiveParticles(old.particles) :
                        \/ new.particles[k].age = old.particles[k].age + timeStepSeconds
                        \/ new.particles[k].status = "beached"
                  /\ snap.particles = EnsembleView(new.particles)
                  /\ snap.stats.total = Len(new.particles)
                  /\ snap.stats.active =
                        Cardinality({k \in DOMAIN new.particles :
                                       new.particles[k].status = "active"})
                  /\ snap.stats.beached =
                        Cardinality({k \in DOMAIN new.particles :
                                       new.particles[k].status = "beached"})]_vars

\* C10 witness: two snapshots are recorded and the particles have since moved
\* away from where the first one shows them.
C10_Witness ==
  \E i \in DOMAIN sim :
    LET s == sim[i].simulator
    IN /\ Len(s.snapshots) >= 2
       /\ s.snapshots[1].time = HourSeconds
       /\ s.snapshots[1].particles # EnsembleView(s.particles)
       /\ s.snapshots[2].particles = EnsembleView(s.particles)

\* A step of simulation i's driver has been taken.
Stepped(i) ==
  /\ i \in DOMAIN sim
  /\ sim'[i].simulator.currentTime # sim[i].simulator.currentTime

\* C11: the ensemble always holds exactly particleCount particles whose ids
\* are the distinct integers 0..N-1; no step, beaching, reflection or
\* snapshot adds, removes or renumbers a particle.
C11_EnsembleFixed ==
  /\ [](\A i \in DOMAIN sim :
         LET particles == sim[i].simulator.particles
         IN /\ Len(particles) = NumParticles
            /\ Cardinality({particles[k].id : k \in DOMAIN particles}) = NumParticles
            /\ {particles[k].id : k \in DOMAIN particles} = 0..(NumParticles - 1))
  /\ [][\A i \in DOMAIN sim :
          /\ DOMAIN sim'[i].simulator.particles = DOMAIN sim[i].simulator.particles
          /\ \A k \in DOMAIN sim[i].simulator.particles :
                sim'[i].simulator.particles[k].id = sim[i].simulator.particles[k].id]_vars

\* C11 witness: a particle has been reflected off the shore and has beached
\* later, and a snapshot has been recorded.
C11_Witness ==
  \E i \in DOMAIN sim :
    LET s == sim[i].simulator
    IN /\ s.stats.reflections >= 1
       /\ s.stats.totalBeached >= 1
       /\ Len(s.snapshots) >= 1
       /\ \E k \in DOMAIN s.particles :
             s.particles[k].status = "beached" /\ s.particles[k].reflectionCount >= 1

\* C12: a step takes an active particle to active or beached and leaves the
\* status of a beached or recovered particle as it was: no step produces
\* recovered and none re-activates a beached particle.
C12_StatusTransitions ==
  [][\A i \in DOMAIN sim :
       Stepped(i) =>
         \A k \in DOMAIN sim[i].simulator.particles :
           LET old == sim[i].simulator.particles[k].status
               new == sim'[i].simulator.particles[k].status
           IN IF old = "active" THEN new \in {"active", "beached"} ELSE new = old]_vars

\* C12 witness: a particle that beached on land contact has been marked
\* recovered, and a step has been taken over it since it beached.
C12_Witness ==
  \E i \in DOMAIN sim :
    \E k \in DOMAIN sim[i].simulator.particles :
      LET p == sim[i].simulator.particles[k]
      IN /\ p.status = "recovered"
         /\ p.beachingEffects = "land_contact"
         /\ sim[i].simulator.currentTime >= p.beachedAt + HourSeconds

\* C13: once a particle's status is not active, every later step leaves its
\* lat, lng, status, age, beached time, beach type and beaching effects
\* unchanged, whatever the depth field and the draws.
C13_InactiveFrame ==
  [][\A i \in DOMAIN sim :
       Stepped(i) =>
         \A k \in DOMAIN sim[i].simulator.particles :
           LET old == sim[i].simulator.particles[k]
               new == sim'[i].simulator.particles[k]
           IN old.status # "active" =>
                /\ new.lat = old.lat /\ new.lng = old.lng
                /\ new.status = old.status /\ new.age = old.age
                /\ new.beachedAt = old.beachedAt
                /\ new.beachType = old.beachType
                /\ new.beachingEffects = old.beachingEffects]_vars

\* C13 witness: a particle beached by the surf is still beached two steps
\* after the step in which it beached.
C13_Witness ==
  \E i \in DOMAIN sim :
    \E k \in DOMAIN sim[i].simulator.particles :
      LET p == sim[i].simulator.particles[k]
      IN /\ p.status = "beached"
         /\ p.beachingEffects = "shallow"
         /\ sim[i].simulator.currentTime > p.beachedAt + HourSeconds

\* C14: a particle's age never decreases; after every step the age of an
\* active particle is the current time and the age of a beached particle is
\* its recorded beached time (the step in which it beaches does not advance
\* its age).
C14_AgeIsClock ==
  /\ [](\A i \in DOMAIN sim :
         \A k \in DOMAIN sim[i].simulator.particles :
           LET p == sim[i].simulator.particles[k]
           IN /\ p.status = "active" => p.age = sim[i].simulator.currentTime
              /\ p.status = "beached" => p.age = p.beachedAt)
  /\ [][\A i \in DOMAIN sim :
          \A k \in DOMAIN sim[i].simulator.particles :
            sim'[i].simulator.particles[k].age >= sim[i].simulator.particles[k].age]_vars

\* C14 witness: a particle was reflected, stayed active for a further step and
\* then beached: its age is the time at which its last step began.
C14_Witness ==
  \E i \in DOMAIN sim :
    \E k \in DOMAIN sim[i].simulator.particles :
      LET p == sim[i].simulator.particles[k]
      IN /\ p.status = "beached"
         /\ p.reflectionCount >= 1
         /\ p.beachedAt >= HourSeconds
         /\ p.age = p.beachedAt
         /\ sim[i].simulator.currentTime > p.beachedAt

\* C15: the run loop never executes more than 10 consecutive steps without
\* yielding; of two simulations running side by side neither completes more
\* than 10 steps while the other, being runnable, completes none; and for
\* every run of more than one step a status request can observe a progress
\* strictly between 0 and 100 (the loop yields after its first step with
\* such a progress, and a status request made then reports it).
C15_YieldEveryTenSteps ==
  /\ [](\A i \in DOMAIN task :
         /\ task[i].slice <= YieldEvery
         /\ task[i].pc \in {"queued", "await"} =>
              \A j \in DOMAIN task : task[i].passed[j] <= YieldEvery)
  /\ [](\A i \in DOMAIN sim :
         (/\ task[i].pc = "await" /\ task[i].step = 1
          /\ sim[i].config.durationSeconds > timeStepSeconds) =>
            /\ ~FracLeq(sim[i].progress, Frac(0, 1))
            /\ ~FracLeq(Frac(100, 1), sim[i].progress)
            /\ (resp.op = "getSimulationStatus" /\ resp.id = i /\ resp.error = "") =>
                  resp.value[1].progress \in 1..99)
  /\ [][\A i \in DOMAIN sim :
          (task[i].step = 0 /\ task'[i].step = 1) => task'[i].pc = "await"]_vars

\* C15 witness: one simulation has waited in the queue while another took a
\* full slice of 10 steps, and a status request made at that moment reports
\* a progress strictly between 0 and 100 for a running simulation.
C15_Witness ==
  \E i \in DOMAIN sim, j \in DOMAIN sim :
    /\ i # j
    /\ task[i].pc = "await" /\ task[i].passed[j] = YieldEvery
    /\ task[j].pc = "await" /\ task[j].slice = YieldEvery
    /\ resp.op = "getSimulationStatus" /\ resp.id = j /\ resp.error = ""
    /\ resp.value[1].status = "running"
    /\ resp.value[1].progress \in 1..99

\* C16: for the five active particles at (0,0), (0,1), (1,0), (1,1) and
\* (0.5,0.5) the 90% polygon returned by calculate is the square with
\* vertices (0,0), (1,0), (1,1), (0,1), in this counter-clockwise order.
C16_ScenarioSquare ==
  (resp.op = "calculate" /\ resp.value # None) =>
     resp.value[1].polygon90 =
       <<[lat |-> 0, lng |-> 0], [lat |-> 2, lng |-> 0],
         [lat |-> 2, lng |-> 2], [lat |-> 0, lng |-> 2]>>

\* All the points lie on one line (all equal included).
Collinear(points) ==
  \A h, j, k \in DOMAIN points : cross(points[h], points[j], points[k]) = 0

\* hull is a simple polygon around points: at least three vertices, all
\* distinct, a strict left turn at every vertex (so no three consecutive
\* vertices collinear and the order counter-clockwise), every vertex one of
\* the points, and every point inside or on it.
SimplePolygonAround(hull, points) ==
  LET n == Len(hull)
      next(k) == IF k = n THEN 1 ELSE k + 1
  IN /\ n >= 3
     /\ \A h, k \in 1..n : h # k => hull[h] # hull[k]
     /\ \A k \in 1..n : cross(hull[k], hull[next(k)], hull[next(next(k))]) > 0
     /\ \A k \in 1..n : \E j \in DOMAIN points : points[j] = hull[k]
     /\ \A k \in 1..n : \A j \in DOMAIN points :
           cross(hull[k], hull[next(k)], points[j]) >= 0

\* C17: with wind speed, current speed and wave height all zero and the
\* diffusion rate set to zero, a step changes no particle's lat or lng.
C17_NoOpDrift ==
  [][\A i \in DOMAIN sim :
       (/\ Stepped(i)
        /\ sim[i].simulator.conditions = CalmConditions
        /\ sim[i].simulator.diffusionRate = 0) =>
          \A k \in DOMAIN sim[i].simulator.particles :
            /\ sim'[i].simulator.particles[k].lat = sim[i].simulator.particles[k].lat
            /\ sim'[i].simulator.particles[k].lng = sim[i].simulator.particles[k].lng]_vars

\* C18 as stated: for every input of at least three grid points, duplicate
\* points and all-collinear inputs included, convexHull returns a simple
\* polygon.
C18_HullIsPolygon ==
  (resp.op = "convexHull" /\ resp.value # None) =>
     SimplePolygonAround(resp.value[1], resp.arg[1])

\* The first and the last of the points in (lat, lng) order.
Extremes(points) ==
  LET before(a, b) == a.lat < b.lat \/ (a.lat = b.lat /\ a.lng <= b.lng)
      lo == CHOOSE a \in {points[k] : k \in DOMAIN points} :
              \A k \in DOMAIN points : before(a, points[k])
      hi == CHOOSE a \in {points[k] : k \in DOMAIN points} :
              \A k \in DOMAIN points : before(points[k], a)
  IN <<lo, hi>>

\* C18 amended: for every input of at least three grid points that are not
\* all on one line, duplicates allowed, convexHull returns a simple polygon
\* (at least three distinct vertices, no three consecutive ones collinear,
\* counter-clockwise in (lat, lng), every input point inside or on it); for
\* an input whose points are all on one line it returns the two extreme
\* points, which are equal when all the points are.
C18_HullOfNonCollinear ==
  (resp.op = "convexHull" /\ resp.value # None) =>
     IF Collinear(resp.arg[1])
     THEN resp.value[1] = Extremes(resp.arg[1])
     ELSE SimplePolygonAround(resp.value[1], resp.arg[1])

\* C18 witness: the hull of MaxPoints points, two of them equal and not all
\* on one line, has been computed and is a triangle.
C18_Witness ==
  /\ resp.op = "convexHull" /\ resp.value # None
  /\ LET points == resp.arg[1]
         hull == resp.value[1]
     IN /\ Len(points) = MaxPoints
        /\ ~Collinear(points)
        /\ \E h, k \in DOMAIN points : h # k /\ points[h] = points[k]
        /\ Len(hull) = 3

\* C19: for any step size, a step records a snapshot exactly when the clock
\* reaches or passes a multiple of 3600 seconds during it.
C19_SnapshotOnHourCrossing ==
  [][\A i \in DOMAIN sim :
       Stepped(i) =>
         LET before == sim[i].simulator
             after == sim'[i].simulator
         IN (Len(after.snapshots) = Len(before.snapshots) + 1)
              <=> (after.currentTime \div HourSeconds
                     > before.currentTime \div HourSeconds)]_vars

\* C20: whenever the attempted move of an active particle lands at depth <= 0,
\* the outcome is chosen by the draw rand against the shore type's stickiness
\* and reflection alone, whatever the depth at the particle's position: the
\* particle beaches if rand < stickiness, is reflected if
\* stickiness <= rand < stickiness + reflection, and stays in place otherwise;
\* on a marsh (stickiness 1.00) every such land contact beaches the particle.
C20_LandContactOutcome ==
  \A i \in DOMAIN sim :
    \A k \in DOMAIN sim[i].simulator.particles :
      \A d \in ShoreDraws :
        LET s == sim[i].simulator
            p == s.particles[k]
            depth == getDepthAt(s.depthField, p.lat, p.lng)
            newDepth == getDepthAt(s.depthField, p.lat + d.drift[1], p.lng + d.drift[2])
            beachedInSurf == depth <= Metres(SurfDepth) /\ d.beach
            shore == shoreTypes[d.shoreType]
            out == ProcessParticle(p, s.stats, s.conditions, s.currentTime, HourSeconds \div 2,
                                   s.depthField, d).p
        IN (p.status = "active" /\ ~beachedInSurf /\ newDepth <= 0) =>
             IF d.rand < shore.stickiness
             THEN out.status = "beached"
             ELSE IF d.rand < shore.stickiness + shore.reflection
             THEN /\ out.status = "active"
                  /\ out.reflectionCount = p.reflectionCount + 1
             ELSE /\ out.status = "active"
                  /\ out.reflectionCount = p.reflectionCount
                  /\ out.lat = p.lat /\ out.lng = p.lng

\* C21: at depth exactly 20 m no shallow-water effect is applied, in the
\* driver's step (no shallow-water encounter is counted) and in a direct call
\* of calculate (zero displacement, no effect tags); at depth exactly 5 m the
\* surf-zone processing is active and at exactly 2 m the very-shallow one.
C21_ThresholdsStrict ==
  /\ \A i \in DOMAIN sim :
       \A k \in DOMAIN sim[i].simulator.particles :
         LET s == sim[i].simulator
             p == s.particles[k]
         IN (p.status = "active"
               /\ getDepthAt(s.depthField, p.lat, p.lng) = Metres(ShallowDepth)) =>
              \A d \in BuiltinDraws :
                ProcessParticle(p, s.stats, s.conditions, s.currentTime, timeStepSeconds,
                                s.depthField, d).stats.shallowWaterEncounters
                  = s.stats.shallowWaterEncounters
  /\ (resp.op = "calculate" /\ resp.value # None) =>
       LET depth == resp.arg[1].depth
           result == resp.value[1]
           tagged(t) == \E k \in DOMAIN result.effects : result.effects[k] = t
       IN /\ depth = Metres(shallowWaterThreshold) =>
               result.displacement = "zero" /\ result.effects = <<>>
          /\ depth = Metres(surfZoneThreshold) => tagged("undertow")
          /\ depth = Metres(veryShallowThreshold) => tagged("very_shallow")

\* C22: during a step the driver never writes to the environmental field:
\* after the particles have been processed the stored wind, current and wave
\* records are what updateConditions produced at the start of the step.
C22_FieldReadOnly ==
  [][\A i \in DOMAIN sim :
       Stepped(i) =>
         \E gust \in Gusts :
           sim'[i].simulator.conditions
             = updateConditions(sim[i].simulator.conditions, gust)]_vars

\* C23: a particle whose displacement is NaN in a step keeps its previous
\* finite latitude and longitude (its step is skipped and counted, the other
\* particles are processed, the simulation goes on); no particle position is
\* ever NaN.
C23_NoNaNPosition ==
  \A i \in DOMAIN sim :
    \A k \in DOMAIN sim[i].simulator.particles :
      /\ sim[i].simulator.particles[k].lat # NaN
      /\ sim[i].simulator.particles[k].lng # NaN

\* C26: when every particle starts in water (depth > 0), every active
\* particle is in water after every step, a particle moved by a shore
\* reflection in that step included.
C26_ActiveInWater ==
  \A i \in DOMAIN sim :
    LET s == sim[i].simulator
    IN (\A p \in {initializeParticles(sim[i].config.lkp)[k] : k \in 1..NumParticles} :
          getDepthAt(s.depthField, p.lat, p.lng) > 0) =>
         \A k \in DOMAIN s.particles :
           s.particles[k].status = "active" =>
             getDepthAt(s.depthField, s.particles[k].lat, s.particles[k].lng) > 0

\* The particles that have a beached time.
everBeached(particles) == {k \in DOMAIN particles : particles[k].beachedAt # -1}

\* The beaching records written for the place and time at which p beached.
recordsOf(s, p) ==
  {b \in DOMAIN s.stats.beachingLocations :
     LET r == s.stats.beachingLocations[b]
     IN r.lat = p.lat /\ r.lng = p.lng /\ r.time = p.beachedAt}

\* The sum of the particles' reflection counts.
reflectionSum(particles) ==
  LET sum[n \in 0..Len(particles)] ==
        IF n = 0 THEN 0 ELSE sum[n - 1] + particles[n].reflectionCount
  IN sum[Len(particles)]

\* What the statistics of a driver always satisfy: every beached particle has
\* a beached time; the particles that beached at one place and time are as
\* many as the records written for them; the reflections are the sum of the
\* particles' reflection counts and at most the land exclusions.
beachingBooks(s) ==
  /\ \A k \in DOMAIN s.particles :
       s.particles[k].status = "beached" =>
         /\ k \in everBeached(s.particles)
         /\ Cardinality(recordsOf(s, s.particles[k]))
              = Cardinality({j \in everBeached(s.particles) :
                               /\ s.particles[j].lat = s.particles[k].lat
                               /\ s.particles[j].lng = s.particles[k].lng
                               /\ s.particles[j].beachedAt = s.particles[k].beachedAt})
  /\ s.stats.reflections = reflectionSum(s.particles)
  /\ s.stats.reflections <= s.stats.landExclusions

C29_BeachedThisHour ==
  \A i \in DOMAIN sim :
    LET s == sim[i].simulator
    IN \A n \in DOMAIN s.snapshots :
         LET snap == s.snapshots[n]
         IN /\ snap.stats.beachedThisHour
                 = Cardinality({b \in DOMAIN s.stats.beachingLocations :
                                  /\ s.stats.beachingLocations[b].time >= snap.time - HourSeconds
                                  /\ s.stats.beachingLocations[b].time < snap.time})
            /\ snap.stats.active + snap.stats.beached = snap.stats.total

\* C30: with the built-in depth lookup (a depth in [20 m, 50 m), fixed per
\* position) no step enters the shallow-water or the land-exclusion branch:
\* every particle stays active and totalBeached, shallowWaterEncounters,
\* surfZoneEncounters, landExclusions and reflections remain 0.
C30_BuiltinNeverShallow ==
  \A i \in DOMAIN sim :
    LET s == sim[i].simulator
    IN s.depthField \in BuiltinFields =>
         /\ \A k \in DOMAIN s.particles :
              /\ s.particles[k].status = "active"
              /\ s.particles[k].beachedAt = -1
              /\ s.particles[k].reflectionCount = 0
         /\ s.stats.totalBeached = 0
         /\ s.stats.beachingLocations = <<>>
         /\ s.stats.shallowWaterEncounters = 0
         /\ s.stats.surfZoneEncounters = 0
         /\ s.stats.landExclusions = 0
         /\ s.stats.reflections = 0

\* A driver with the built-in lookup has stepped and one of its particles
\* lies where the depth drawn is exactly 20 m.
C30_Witness ==
  \E i \in DOMAIN sim :
    LET s == sim[i].simulator
    IN /\ s.depthField = "ridged"
       /\ s.currentTime >= 2 * HourSeconds
       /\ \E k \in DOMAIN s.particles :
            /\ s.particles[k].age > 0
            /\ getDepthAt(s.depthField, s.particles[k].lat, s.particles[k].lng)
                 = Metres(shallowWaterThreshold)

\* C28: when the results of a completed simulation are generated its end
\* time has already been recorded, so that results.duration.elapsed, which is
\* (endTime - startTime) / 1000, and the elapsed hours handed to the survival
\* estimator are non-negative.  With endTime still null the difference is
\* -startTime, a negative number.
C28_EndTimeBeforeResults ==
  \A i \in DOMAIN sim :
    sim[i].results # None => sim[i].results[1].elapsedFromEndTime # None

\* C24: the driver's depth cache, keyed by the position rounded to 0.0001
\* degrees, holds at most 10 000 entries; once that many are held, inserting
\* a new key evicts the oldest entries first.
C24_DriverCacheCapped ==
  driverCache # None => Len(driverCache[1].depthCache.keys) <= 10000

\* a is an initial part of b.
IsPrefix(a, b) == Len(a) <= Len(b) /\ SubSeq(b, 1, Len(a)) = a

\* C25: the bathymetry service's depth cache never holds more than
\* cacheMaxSize = 10 000 entries, whatever the getDepth calls (hits, misses,
\* refreshes of expired entries, provider failures); an eviction removes
\* entries strictly in insertion order, the 1000 oldest keys; and getDepth
\* always returns a depth record, never null and never an exception.
C25_ServiceCacheCapped ==
  /\ [](bathymetry # None =>
          LET cache == bathymetry[1].depthCache
          IN /\ Len(cache.keys) <= cacheMaxSize
             /\ Cardinality({cache.keys[j] : j \in DOMAIN cache.keys}) = Len(cache.keys)
             /\ resp.op = "getDepth" =>
                  /\ resp.error = ""
                  /\ resp.value # None
                  /\ resp.value[1].depth \in Nat
                  /\ resp.value[1].source \in {"NOAA_CRM", "NOAA_BAG", "estimated"})
  /\ [][bathymetry # None /\ bathymetry' # None =>
          LET old == bathymetry[1].depthCache.keys
              new == bathymetry'[1].depthCache.keys
          IN \/ IsPrefix(old, new)
             \/ /\ Len(old) = cacheMaxSize
                /\ IsPrefix(SubSeq(old, evictedAtOnce + 1, Len(old)), new)]_vars

\* The cache was full, a depth was asked for at a position not in it, and the
\* 1000 oldest keys have made room for the new one.
C25_Witness ==
  /\ bathymetry # None
  /\ resp.op = "getDepth"
  /\ LET cache == bathymetry[1].depthCache
     IN /\ Len(cache.keys) = cacheMaxSize - evictedAtOnce + 1
        /\ cache.keys[1] = evictedAtOnce
        /\ cache.keys[Len(cache.keys)] = getCacheKey(resp.arg[1][1], resp.arg[1][2])
        /\ ~MapHas(cache, 0)

====
